---------------------------- MODULE Spec2Model ----------------------------
(***************************************************************************)
(* Fire-case relief-valve sizing (PRD): the orifice selector, the fire     *)
(* heat-load models, the compressible-flow area equations, the vessel      *)
(* wetted-area calculator and the request pipeline that chains them.       *)
(*                                                                         *)
(* Numbers.  The program computes in floating point; the model computes    *)
(* in fixed point on integers, each quantity with its own unit:            *)
(*   lengths            mm            (thickness_mm: 1/10 mm)              *)
(*   areas (vessel)     mm^2          (1 m^2 = 1000000)                    *)
(*   volumes            mm^3                                               *)
(*   orifice areas      1/1000 in^2   (API table 0.110 -> 110)             *)
(*   pressures          1/10 psi      (14.7 psia -> 147)                   *)
(*   design pressure    1/1000 barg   (1.034 -> 1034)                      *)
(*   k, Z, K-factors    1/1000        molecular weight  1/10               *)
(*   temperatures       1/100 deg     accumulation      1/10 percent       *)
(*   heat load          W             latent heat       J/kg               *)
(*   mass flows         1/1000 kg/hr, 1/1000 lb/hr                         *)
(* A Python value that may be missing or malformed is a pair               *)
(*   <<"num", n>>, <<"none", 0>>, <<"str", i>>, <<"bool", b>>              *)
(* (i indexes StrTable, b is 1 for True and 0 for False).                  *)
(***************************************************************************)
EXTENDS Integers, Sequences, FiniteSets, TLC

VARIABLES
    pc,      \* position of the running call / request
    args,    \* the arguments of the call under way
    ret,     \* the outcome of the call: a value record or an error
    trace,   \* the stages / sub-calls executed so far, in order
    loc      \* the local variables of the request handler

vars == <<pc, args, ret, trace, loc>>

---------------------------------------------------------------------------
(* Python values *)

Num(n) == <<"num", n>>
None == <<"none", 0>>
Bool(b) == <<"bool", IF b THEN 1 ELSE 0>>

\* The strings drawn as inputs, none of them numeric, each with the value of
\* s.lower().strip().
StrTable ==
    << [s |-> "abc", norm |-> "abc"],     [s |-> "true", norm |-> "true"],
       [s |-> " TRUE ", norm |-> "true"], [s |-> "yes", norm |-> "yes"],
       [s |-> "1", norm |-> "1"],         [s |-> "false", norm |-> "false"],
       [s |-> "No", norm |-> "no"],       [s |-> "0", norm |-> "0"],
       [s |-> "on", norm |-> "on"],       [s |-> "", norm |-> ""],
       [s |-> "API2000", norm |-> "api2000"],
       [s |-> "API520", norm |-> "api520"],
       [s |-> "NFPA30", norm |-> "nfpa30"],
       [s |-> "Vertical", norm |-> "vertical"],
       [s |-> "Horizontal", norm |-> "horizontal"],
       [s |-> "ASME_FD", norm |-> "asme_fd"],
       [s |-> "Ellipsoidal", norm |-> "ellipsoidal"],
       [s |-> "Hemispherical", norm |-> "hemispherical"],
       [s |-> "  ", norm |-> ""] >>

Str(i) == <<"str", i>>
BadStr == Str(1)
\* The value <<"str", i>> of a string of the table.
StrOf(t) == Str(CHOOSE i \in DOMAIN StrTable : StrTable[i].s = t)
\* The handler has no local variable yet.
NoLocals == [none |-> 0]
LowerStrip(x) == StrTable[x[2]].norm

IsNone(x) == x[1] = "none"
IsBool(x) == x[1] = "bool"
IsStr(x) == x[1] = "str"
\* float(x) succeeds on the numbers drawn and raises on None and on the
\* strings drawn as numeric arguments (none is numeric); booleans are not
\* drawn for numeric arguments.
IsFloatable(x) == x[1] = "num"
ToFloat(x) == x[2]
\* bool(x) of a number or a boolean.
Truthy(x) == x[2] # 0

Min(a, b) == IF a <= b THEN a ELSE b
Max(a, b) == IF a >= b THEN a ELSE b

\* floor(sqrt(n)): math.sqrt in fixed point.
RECURSIVE SqrtIter(_, _, _)
SqrtIter(n, lo, hi) ==
    IF lo >= hi THEN lo
    ELSE LET mid == (lo + hi + 1) \div 2
         IN  IF mid * mid <= n THEN SqrtIter(n, mid, hi)
                               ELSE SqrtIter(n, lo, mid - 1)

ISqrt(n) == IF n <= 0 THEN 0 ELSE SqrtIter(n, 0, Min(n, 46340))

\* floor(a * b / c) for a, b >= 0 and c > 0 without leaving the 32-bit
\* integers: <<quotient, remainder>> by halving b.
\* One halving step: from <<q, r>> of a * (b \div 2) / c to that of a * b / c.
MulDivDouble(h, a, b, c) ==
    LET odd == b % 2 = 1
        r2 == 2 * h[2] + (IF odd THEN a % c ELSE 0)
        q2 == 2 * h[1] + (IF odd THEN a \div c ELSE 0)
    IN  <<q2 + (r2 \div c), r2 % c>>

RECURSIVE MulDivQR(_, _, _)
MulDivQR(a, b, c) ==
    IF b = 0 THEN <<0, 0>>
    ELSE CHOOSE v \in {MulDivDouble(h, a, b, c) :
                           h \in {MulDivQR(a, b \div 2, c)}} : TRUE

MulDiv(a, b, c) ==
    IF a = 0 \/ b = 0 THEN 0
    ELSE IF b <= 2147483647 \div a THEN (a * b) \div c
    ELSE MulDivQR(a, b, c)[1]

\* Results of the float-valued functions: a value or a raised ValueError.
Ok(v) == [ok |-> TRUE, err |-> "", val |-> v]
Err(e) == [ok |-> FALSE, err |-> e, val |-> 0]

\* The first raised error of a sequence of checks run in order, or Ok(0).
RECURSIVE FirstError(_, _)
FirstError(checks, i) ==
    IF i > Len(checks) THEN Ok(0)
    ELSE IF ~checks[i].ok THEN checks[i]
    ELSE FirstError(checks, i + 1)

---------------------------------------------------------------------------
(* sizing/orifice.py *)

\* API_ORIFICES, in dict order; area in 1/1000 in^2.
API_ORIFICES ==
    << [letter |-> "D", area |-> 110],   [letter |-> "E", area |-> 196],
       [letter |-> "F", area |-> 307],   [letter |-> "G", area |-> 503],
       [letter |-> "H", area |-> 785],   [letter |-> "J", area |-> 1287],
       [letter |-> "K", area |-> 1838],  [letter |-> "L", area |-> 2853],
       [letter |-> "M", area |-> 3600],  [letter |-> "N", area |-> 4454],
       [letter |-> "P", area |-> 6380],  [letter |-> "Q", area |-> 11050],
       [letter |-> "R", area |-> 16000], [letter |-> "T", area |-> 26000] >>

\* API_INLET_SIZES, in 1/10 in.
API_INLET_SIZES ==
    [l \in {"D", "E", "F", "G", "H", "J", "K", "L", "M", "N", "P", "Q", "R", "T"} |->
        CASE l \in {"D", "E"} -> 10
          [] l \in {"F", "G"} -> 15
          [] l = "H" -> 20
          [] l \in {"J", "K"} -> 30
          [] l \in {"L", "M", "N"} -> 40
          [] l \in {"P", "Q"} -> 60
          [] OTHER -> 80]

Letters == {API_ORIFICES[i].letter : i \in DOMAIN API_ORIFICES}

AreaOfLetter(l) ==
    API_ORIFICES[CHOOSE i \in DOMAIN API_ORIFICES : API_ORIFICES[i].letter = l].area

\* max(API_ORIFICES.values())
MAX_ORIFICE_AREA ==
    CHOOSE a \in {API_ORIFICES[i].area : i \in DOMAIN API_ORIFICES} :
        \A i \in DOMAIN API_ORIFICES : API_ORIFICES[i].area <= a

\* sorted(items, key=area): stable insertion sort of the dict items.
RECURSIVE InsertByArea(_, _)
InsertByArea(sorted, item) ==
    IF sorted = << >> THEN << item >>
    ELSE IF sorted[Len(sorted)].area <= item.area
         THEN Append(sorted, item)
         ELSE Append(InsertByArea(SubSeq(sorted, 1, Len(sorted) - 1), item),
                     sorted[Len(sorted)])

RECURSIVE SortedByArea(_)
SortedByArea(items) ==
    IF items = << >> THEN << >>
    ELSE InsertByArea(SortedByArea(SubSeq(items, 1, Len(items) - 1)),
                      items[Len(items)])

\* 2.0 * sqrt(area / pi), in 1/1000 in; pi taken as 355/113.
get_orifice_diameter(area_in2) ==
    2 * ISqrt(((area_in2 * 1000) \div 355) * 113)

OrificeOk(letter, area) ==
    [ok |-> TRUE, err |-> "", letter |-> letter, area_in2 |-> area,
     diameter_in |-> get_orifice_diameter(area),
     inlet_size_in |-> API_INLET_SIZES[letter]]

OrificeErr(e) ==
    [ok |-> FALSE, err |-> e, letter |-> "", area_in2 |-> 0,
     diameter_in |-> 0, inlet_size_in |-> 0]

\* A plausible slip: strict comparison in the scan.
RECURSIVE ScanOrificesStrict(_, _, _)
ScanOrificesStrict(items, i, A) ==
    IF i > Len(items) THEN OrificeErr("no_standard_orifice")
    ELSE IF items[i].area > A THEN OrificeOk(items[i].letter, items[i].area)
    ELSE ScanOrificesStrict(items, i + 1, A)

\* The for loop of select_orifice over the sorted items, from index i;
\* falling off the end raises the "No standard API orifice" ValueError.
RECURSIVE ScanOrifices(_, _, _)
ScanOrifices(items, i, A) ==
    IF i > Len(items) THEN OrificeErr("no_standard_orifice")
    ELSE IF items[i].area >= A THEN OrificeOk(items[i].letter, items[i].area)
    ELSE ScanOrifices(items, i + 1, A)

\* A plausible slip: the largest orifice as a fallback, and no zero case.
select_orifice_fallback(A_required_in2) ==
    IF ~IsFloatable(A_required_in2) THEN OrificeErr("not_a_number")
    ELSE LET A == ToFloat(A_required_in2)
             r == ScanOrifices(SortedByArea(API_ORIFICES), 1, A)
         IN  IF r.ok THEN r ELSE OrificeOk("T", AreaOfLetter("T"))

\* A plausible slip: a zero area refused together with the negative ones.
select_orifice_positive_only(A_required_in2) ==
    IF IsNone(A_required_in2) THEN OrificeErr("missing")
    ELSE IF ~IsFloatable(A_required_in2) THEN OrificeErr("not_a_number")
    ELSE LET A == ToFloat(A_required_in2)
         IN  IF A <= 0 THEN OrificeErr("negative")
             ELSE ScanOrifices(SortedByArea(API_ORIFICES), 1, A)

select_orifice(A_required_in2) ==
    IF IsNone(A_required_in2) THEN OrificeErr("missing")
    ELSE IF ~IsFloatable(A_required_in2) THEN OrificeErr("not_a_number")
    ELSE LET A == ToFloat(A_required_in2)
         IN  IF A < 0 THEN OrificeErr("negative")
             ELSE IF A = 0 THEN OrificeOk("D", AreaOfLetter("D"))
             ELSE ScanOrifices(SortedByArea(API_ORIFICES), 1, A)

---------------------------------------------------------------------------
(* Direct calls of select_orifice *)

\* How far around each table area, and beyond the largest one, the required
\* areas are drawn.
Spread == 2

TableAreas == {API_ORIFICES[i].area : i \in DOMAIN API_ORIFICES}

OrificeInputs ==
    {None, BadStr}
    \cup {Num(a + d) : a \in TableAreas \cup {0}, d \in (0 - Spread)..Spread}

InitOrifice ==
    /\ pc = "call"
    /\ args \in {<<A>> : A \in OrificeInputs}
    /\ ret = OrificeErr("")
    /\ trace = << >>
    /\ loc = NoLocals

CallSelectOrifice ==
    /\ pc = "call"
    /\ ret' = select_orifice(args[1])
    /\ trace' = Append(trace, "select_orifice")
    /\ pc' = "done"
    /\ UNCHANGED <<args, loc>>

NextOrifice == CallSelectOrifice

SpecOrifice == InitOrifice /\ [][NextOrifice]_vars

\* C1: for every required area A with 0 < A <= 26.0 in^2, select_orifice
\* returns the table row with the smallest area >= A: the returned area is
\* never below A, no table orifice with a smaller area is >= A, and letter,
\* area and inlet size belong to the same row.
C1_SmallestSufficientOrifice ==
    (pc = "done" /\ args[1][1] = "num" /\ args[1][2] > 0 /\ args[1][2] <= 26000)
    => /\ ret.ok
       /\ ret.area_in2 >= args[1][2]
       /\ \A a \in TableAreas : a >= args[1][2] => a >= ret.area_in2
       /\ \E i \in DOMAIN API_ORIFICES :
             /\ API_ORIFICES[i].letter = ret.letter
             /\ API_ORIFICES[i].area = ret.area_in2
       /\ ret.inlet_size_in = API_INLET_SIZES[ret.letter]

\* An area exactly equal to a table area (E = 0.196) was asked and E returned.
C1_Witness ==
    pc = "done" /\ args[1] = Num(196) /\ ret.ok /\ ret.letter = "E"

---------------------------------------------------------------------------
(* Real powers in fixed point *)

\* x ** (p / 1024) for x >= 0 at scale F (x = 1.0 is F), by the binary
\* expansion of the exponent: the product of the repeated square roots
\* x^(1/2), x^(1/4), ... whose bit is set in p.  root is x^(1/2^(i-1)), bit
\* the weight of x^(1/2^i).
RECURSIVE PowBits(_, _, _, _, _)
PowBits(root, p, bit, acc, F) ==
    IF bit = 0 THEN acc
    ELSE LET r == ISqrt(root * F)
         IN  IF p >= bit THEN PowBits(r, p - bit, bit \div 2, MulDiv(acc, r, F), F)
                         ELSE PowBits(r, p, bit \div 2, acc, F)

\* x ** n for an integer n >= 0, at scale F.
RECURSIVE IntPow(_, _, _)
IntPow(x, n, F) == IF n = 0 THEN F ELSE MulDiv(IntPow(x, n - 1, F), x, F)

\* x ** (num / den) for x >= 0 at scale F, num >= 0, den > 0; the fraction
\* of the exponent is rounded to a multiple of 1/1024.
RealPow(x, num, den, F) ==
    LET frac == ((num % den) * 1024 + den \div 2) \div den
        n == (num \div den) + (IF frac = 1024 THEN 1 ELSE 0)
        p == IF frac = 1024 THEN 0 ELSE frac
    IN  MulDiv(IntPow(x, n, F), PowBits(x, p, 512, F, F), F)

\* A_mm2 ** (e / 1000) with the area in m^2, result in 1/1000.
PowArea(A_mm2, e) == RealPow(A_mm2 \div 1000, e, 1000, 1000)

\* coef * A ** (e / 1000) in W, for coef a multiple of 10.
PowerLaw(coef, A_mm2, e) ==
    IF e = 1000 THEN ((A_mm2 \div 1000) * (coef \div 10)) \div 100
    ELSE ((coef \div 100) * PowArea(A_mm2, e)) \div 10

---------------------------------------------------------------------------
(* fire/api2000.py, fire/api520.py *)

\* A heat load in W, with the return statement that produced it.
HeatOk(Q, row) == [ok |-> TRUE, err |-> "", Q |-> Q, row |-> row]
HeatErr(e) == [ok |-> FALSE, err |-> e, Q |-> 0, row |-> ""]

\* A plausible slip: the band boundaries given to the lower band.
heat_load_api2000_closed_above(A_wetted_m2, P_design_barg) ==
    IF IsNone(A_wetted_m2) THEN HeatErr("area_missing")
    ELSE IF ~IsFloatable(A_wetted_m2) THEN HeatErr("area_not_a_number")
    ELSE LET A == ToFloat(A_wetted_m2)
         IN  IF A < 0 THEN HeatErr("area_negative")
             ELSE IF A = 0 THEN HeatOk(0, "zero_area")
             ELSE IF IsNone(P_design_barg) THEN HeatErr("pressure_missing")
             ELSE IF ~IsFloatable(P_design_barg) THEN HeatErr("pressure_not_a_number")
             ELSE LET P == ToFloat(P_design_barg)
                  IN  IF P > 1034 THEN HeatOk(PowerLaw(10800, A, 1000), "high_pressure")
                      ELSE IF A <= 18600000 THEN HeatOk(PowerLaw(63150, A, 1000), "row1")
                      ELSE IF A <= 93000000 THEN HeatOk(PowerLaw(224200, A, 566), "row2")
                      ELSE IF A <= 260000000 THEN HeatOk(PowerLaw(630400, A, 338), "row3")
                      ELSE IF P >= 70 THEN HeatOk(PowerLaw(43200, A, 820), "row4")
                      ELSE HeatOk(4129700, "row5")

\* A plausible slip: the design pressure validated before the zero-area
\* return.
heat_load_api2000_pressure_first(A_wetted_m2, P_design_barg) ==
    IF IsNone(A_wetted_m2) THEN HeatErr("area_missing")
    ELSE IF ~IsFloatable(A_wetted_m2) THEN HeatErr("area_not_a_number")
    ELSE IF ToFloat(A_wetted_m2) < 0 THEN HeatErr("area_negative")
    ELSE IF IsNone(P_design_barg) THEN HeatErr("pressure_missing")
    ELSE IF ~IsFloatable(P_design_barg) THEN HeatErr("pressure_not_a_number")
    ELSE IF ToFloat(A_wetted_m2) = 0 THEN HeatOk(0, "zero_area")
    ELSE heat_load_api2000_closed_above(
             Num(Max(ToFloat(A_wetted_m2), 1)), P_design_barg)

heat_load_api2000(A_wetted_m2, P_design_barg) ==
    IF IsNone(A_wetted_m2) THEN HeatErr("area_missing")
    ELSE IF ~IsFloatable(A_wetted_m2) THEN HeatErr("area_not_a_number")
    ELSE LET A == ToFloat(A_wetted_m2)
         IN  IF A < 0 THEN HeatErr("area_negative")
             ELSE IF A = 0 THEN HeatOk(0, "zero_area")
             ELSE IF IsNone(P_design_barg) THEN HeatErr("pressure_missing")
             ELSE IF ~IsFloatable(P_design_barg) THEN HeatErr("pressure_not_a_number")
             ELSE LET P == ToFloat(P_design_barg)
                  IN  IF P > 1034
                      THEN HeatOk(PowerLaw(10800, A, 1000), "high_pressure")
                      ELSE IF A < 18600000
                      THEN HeatOk(PowerLaw(63150, A, 1000), "row1")
                      ELSE IF 18600000 <= A /\ A < 93000000
                      THEN HeatOk(PowerLaw(224200, A, 566), "row2")
                      ELSE IF 93000000 <= A /\ A < 260000000
                      THEN HeatOk(PowerLaw(630400, A, 338), "row3")
                      ELSE IF A >= 260000000 /\ P >= 70
                      THEN HeatOk(PowerLaw(43200, A, 820), "row4")
                      ELSE IF A >= 260000000 /\ P < 70
                      THEN HeatOk(4129700, "row5")
                      ELSE HeatErr("unexpected_combination")

\* A plausible slip: the flag validated before the zero-area return.
heat_load_api520_validate_first(A_wetted, firefighting) ==
    IF IsNone(A_wetted) THEN HeatErr("area_missing")
    ELSE IF ~IsFloatable(A_wetted) THEN HeatErr("area_not_a_number")
    ELSE IF ToFloat(A_wetted) < 0 THEN HeatErr("area_negative")
    ELSE IF IsNone(firefighting) THEN HeatErr("firefighting_missing")
    ELSE IF IsStr(firefighting)
            /\ LowerStrip(firefighting) \notin {"true", "1", "yes", "false", "0", "no"}
    THEN HeatErr("firefighting_not_boolean")
    ELSE IF ToFloat(A_wetted) = 0 THEN HeatOk(0, "zero_area")
    ELSE IF (IsStr(firefighting) /\ LowerStrip(firefighting) \in {"true", "1", "yes"})
            \/ (~IsStr(firefighting) /\ Truthy(firefighting))
    THEN HeatOk(PowerLaw(43200, ToFloat(A_wetted), 820), "firefighting")
    ELSE HeatOk(PowerLaw(70900, ToFloat(A_wetted), 820), "no_firefighting")

\* A plausible slip: a string flag converted by bool(), so that every
\* non-empty string counts as "provided".
heat_load_api520_truthy_strings(A_wetted, firefighting) ==
    IF IsNone(A_wetted) THEN HeatErr("area_missing")
    ELSE IF ~IsFloatable(A_wetted) THEN HeatErr("area_not_a_number")
    ELSE IF ToFloat(A_wetted) < 0 THEN HeatErr("area_negative")
    ELSE IF ToFloat(A_wetted) = 0 THEN HeatOk(0, "zero_area")
    ELSE IF IsNone(firefighting) THEN HeatErr("firefighting_missing")
    ELSE IF (IsStr(firefighting) /\ StrTable[firefighting[2]].s # "")
            \/ (~IsStr(firefighting) /\ Truthy(firefighting))
    THEN HeatOk(PowerLaw(43200, ToFloat(A_wetted), 820), "firefighting")
    ELSE HeatOk(PowerLaw(70900, ToFloat(A_wetted), 820), "no_firefighting")

heat_load_api520(A_wetted, firefighting) ==
    IF IsNone(A_wetted) THEN HeatErr("area_missing")
    ELSE IF ~IsFloatable(A_wetted) THEN HeatErr("area_not_a_number")
    ELSE LET A == ToFloat(A_wetted)
         IN  IF A < 0 THEN HeatErr("area_negative")
             ELSE IF A = 0 THEN HeatOk(0, "zero_area")
             ELSE IF IsNone(firefighting) THEN HeatErr("firefighting_missing")
             ELSE IF ~IsBool(firefighting) /\ IsStr(firefighting)
                     /\ LowerStrip(firefighting) \notin
                            {"true", "1", "yes", "false", "0", "no"}
             THEN HeatErr("firefighting_not_boolean")
             ELSE LET flag ==
                          IF IsBool(firefighting) THEN Truthy(firefighting)
                          ELSE IF IsStr(firefighting)
                          THEN LowerStrip(firefighting) \in {"true", "1", "yes"}
                          ELSE Truthy(firefighting)
                      C == IF flag THEN 43200 ELSE 70900
                  IN  HeatOk(PowerLaw(C, A, 820),
                             IF flag THEN "firefighting" ELSE "no_firefighting")

---------------------------------------------------------------------------
(* The _validate_* helpers of flow/pressures.py, flow/area.py, sizing/prd.py *)

_validate_positive(value, name) ==
    IF IsNone(value) THEN Err(name \o ":required")
    ELSE IF ~IsFloatable(value) THEN Err(name \o ":not_a_number")
    ELSE IF ToFloat(value) <= 0 THEN Err(name \o ":must_be_positive")
    ELSE Ok(ToFloat(value))

_validate_non_negative(value, name) ==
    IF IsNone(value) THEN Err(name \o ":required")
    ELSE IF ~IsFloatable(value) THEN Err(name \o ":not_a_number")
    ELSE IF ToFloat(value) < 0 THEN Err(name \o ":negative")
    ELSE Ok(ToFloat(value))

\* A plausible slip: no upper limit on k.
_validate_k_no_upper(k) ==
    IF IsNone(k) THEN Err("k:required")
    ELSE IF ~IsFloatable(k) THEN Err("k:not_a_number")
    ELSE IF ToFloat(k) <= 1000 THEN Err("k:must_be_above_1")
    ELSE Ok(ToFloat(k))

_validate_k(k) ==
    IF IsNone(k) THEN Err("k:required")
    ELSE IF ~IsFloatable(k) THEN Err("k:not_a_number")
    ELSE IF ToFloat(k) <= 1000 THEN Err("k:must_be_above_1")
    ELSE IF ToFloat(k) > 2000 THEN Err("k:unusually_high")
    ELSE Ok(ToFloat(k))

\* max_val in 1/1000; min_val is not used by the code.
_validate_factor(value, name, min_val, max_val) ==
    LET v == _validate_positive(value, name)
    IN  IF ~v.ok THEN v
        ELSE IF v.val > max_val THEN Err(name \o ":exceeds_max")
        ELSE v

---------------------------------------------------------------------------
(* flow/pressures.py *)

max_accumulation(MAWP_psig, accumulation_percent) ==
    LET e == FirstError(<<_validate_positive(MAWP_psig, "MAWP_psig"),
                          _validate_non_negative(accumulation_percent, "accum_percent")>>, 1)
    IN  IF ~e.ok THEN e
        ELSE IF ToFloat(accumulation_percent) > 1000 THEN Err("accum_percent:exceeds_100")
        ELSE Ok(MulDiv(ToFloat(MAWP_psig), ToFloat(accumulation_percent), 1000))

\* A plausible slip: the atmospheric pressure left out (a gauge pressure).
relieving_pressure_gauge(MAWP_psig, atm_psia, accumulation_psig) ==
    LET e == FirstError(<<_validate_positive(MAWP_psig, "MAWP_psig"),
                          _validate_positive(atm_psia, "atm_psia"),
                          _validate_non_negative(accumulation_psig, "accumulation_psig")>>, 1)
    IN  IF ~e.ok THEN e
        ELSE Ok(ToFloat(MAWP_psig) + ToFloat(accumulation_psig))

relieving_pressure(MAWP_psig, atm_psia, accumulation_psig) ==
    LET e == FirstError(<<_validate_positive(MAWP_psig, "MAWP_psig"),
                          _validate_positive(atm_psia, "atm_psia"),
                          _validate_non_negative(accumulation_psig, "accumulation_psig")>>, 1)
    IN  IF ~e.ok THEN e
        ELSE Ok(ToFloat(MAWP_psig) + ToFloat(accumulation_psig) + ToFloat(atm_psia))

\* (2 / (k + 1)) at scale 10000, for k in 1/1000.
TwoOverKPlus1(k) == 20000000 \div (k + 1000)

critical_downstream_pressure(P1_psia, k) ==
    LET v == _validate_positive(P1_psia, "P1_psia")
    IN  IF ~v.ok THEN v
        ELSE IF IsNone(k) THEN Err("k:required")
        ELSE IF ~IsFloatable(k) THEN Err("k:not_a_number")
        ELSE IF ToFloat(k) <= 1000 THEN Err("k:must_be_above_1")
        ELSE LET kk == ToFloat(k)
                 ratio == RealPow(TwoOverKPlus1(kk), kk, kk - 1000, 10000)
             IN  Ok(MulDiv(ratio, v.val, 10000))

downstream_pressure(P_back_psig, atm_psia) ==
    LET e == FirstError(<<_validate_non_negative(P_back_psig, "P_back_psig"),
                          _validate_positive(atm_psia, "atm_psia")>>, 1)
    IN  IF ~e.ok THEN e
        ELSE Ok(ToFloat(P_back_psig) + ToFloat(atm_psia))

---------------------------------------------------------------------------
(* flow/evaporation.py, utils/units.py *)

\* Q / h_fg in kg/s, as 1/1000000 kg/s.
evaporation_rate(Q_dot_W, h_fg_J_per_kg) ==
    IF IsNone(Q_dot_W) THEN Err("Q_dot_W:required")
    ELSE IF ~IsFloatable(Q_dot_W) THEN Err("Q_dot_W:not_a_number")
    ELSE IF ToFloat(Q_dot_W) < 0 THEN Err("Q_dot_W:negative")
    ELSE IF ToFloat(Q_dot_W) = 0 THEN Ok(0)
    ELSE IF IsNone(h_fg_J_per_kg) THEN Err("h_fg_J_per_kg:required")
    ELSE IF ~IsFloatable(h_fg_J_per_kg) THEN Err("h_fg_J_per_kg:not_a_number")
    ELSE IF ToFloat(h_fg_J_per_kg) <= 0 THEN Err("h_fg_J_per_kg:must_be_positive")
    ELSE Ok(MulDiv(ToFloat(Q_dot_W), 1000000, ToFloat(h_fg_J_per_kg)))

\* evaporation_rate(...) * 3600.0, in 1/1000 kg/hr.
evaporation_rate_kg_per_hr(Q_dot_W, h_fg_J_per_kg) ==
    LET r == evaporation_rate(Q_dot_W, h_fg_J_per_kg)
    IN  IF ~r.ok THEN r ELSE Ok(MulDiv(r.val, 3600, 1000))

_safe_float(value, name) ==
    IF IsNone(value) THEN Err(name \o ":required")
    ELSE IF ~IsFloatable(value) THEN Err(name \o ":not_a_number")
    ELSE Ok(ToFloat(value))

\* m * 2.2046226218
kg_hr_to_lb_hr(m_kg_hr) ==
    LET v == _safe_float(m_kg_hr, "m_kg_hr")
    IN  IF ~v.ok THEN v
        ELSE IF v.val < 0 THEN Err("m_kg_hr:negative")
        ELSE Ok(MulDiv(v.val, 22046, 10000))

\* (T_C + 273.15) * 9 / 5, in 1/100 deg R.
C_to_R(T_C) ==
    LET v == _safe_float(T_C, "T_C")
    IN  IF ~v.ok THEN v
        ELSE IF v.val < 0 - 27315 THEN Err("T_C:below_absolute_zero")
        ELSE Ok(((v.val + 27315) * 9) \div 5)

---------------------------------------------------------------------------
(* flow/area.py *)

\* 520 * sqrt(k * (2/(k+1)) ** ((k+1)/(k-1))), at scale 10000.
C_gas(k) ==
    LET v == _validate_k(k)
    IN  IF ~v.ok THEN v
        ELSE LET pw == RealPow(TwoOverKPlus1(v.val), v.val + 1000, v.val - 1000, 10000)
             IN  Ok(520 * ISqrt(MulDiv(v.val, pw, 1000) * 10000))

\* sqrt((k/(k-1)) * r**k * (1 - r**((k-1)/k)) / (1 - r)); r and the result
\* at scale 10000.
F2_subcritical(k, r) ==
    LET v == _validate_k(k)
    IN  IF ~v.ok THEN v
        ELSE IF IsNone(r) THEN Err("r:required")
        ELSE IF ~IsFloatable(r) THEN Err("r:not_a_number")
        ELSE IF ToFloat(r) <= 0 \/ ToFloat(r) >= 10000 THEN Err("r:not_between_0_and_1")
        ELSE LET rr == ToFloat(r)
                 rk == RealPow(rr, v.val, 1000, 10000)
                 rq == RealPow(rr, v.val - 1000, v.val, 10000)
                 t == MulDiv(10000 - rq, 10000, 10000 - rr)
                 num == MulDiv(MulDiv(rk, t, 10000), v.val, v.val - 1000)
             IN  Ok(ISqrt(num * 10000))

\* T * Z / M as a real number times 1000000 (T in 1/100, Z in 1/1000, M in
\* 1/10).
TZoverM(T_R, Z, M) == MulDiv(T_R * 100, Z, M)

\* Result in 1/1000 in^2.
required_area_critical_gas(W_lb_per_hr, k, T_R, Z, M_lb_per_lbmol, P1_psia, Kd, Kb, Kc) ==
    LET w == _validate_non_negative(W_lb_per_hr, "W_lb_per_hr")
    IN  IF ~w.ok THEN w
        ELSE IF w.val = 0 THEN Ok(0)
        ELSE LET e == FirstError(<<
                     _validate_k(k),
                     _validate_positive(T_R, "T_R"),
                     _validate_positive(Z, "Z"),
                     IF IsFloatable(Z) /\ ToFloat(Z) > 2000
                         THEN Err("Z:unusually_high") ELSE Ok(0),
                     _validate_positive(M_lb_per_lbmol, "M"),
                     _validate_positive(P1_psia, "P1_psia"),
                     _validate_factor(Kd, "Kd", 0, 1000),
                     _validate_factor(Kb, "Kb", 0, 1000),
                     _validate_factor(Kc, "Kc", 0, 1000)>>, 1)
             IN  IF ~e.ok THEN e
                 ELSE LET C == C_gas(k).val
                          num == MulDiv(w.val,
                                     ISqrt(TZoverM(ToFloat(T_R), ToFloat(Z),
                                                   ToFloat(M_lb_per_lbmol))), 1000)
                          \* C * Kd * P1 * Kb * Kc, at scale 100
                          den == MulDiv(MulDiv(MulDiv(MulDiv(C, ToFloat(Kd), 1000),
                                     ToFloat(P1_psia), 1000), ToFloat(Kb), 1000),
                                     ToFloat(Kc), 1000)
                      IN  IF den = 0 THEN Err("denominator_zero")
                          ELSE Ok(MulDiv(num, 100, den))

\* Result in 1/1000 in^2.
required_area_subcritical_gas(W_lb_per_hr, k, T_R, Z, M_lb_per_lbmol, P1_psia, P2_psia, Kd, Ke) ==
    LET w == _validate_non_negative(W_lb_per_hr, "W_lb_per_hr")
    IN  IF ~w.ok THEN w
        ELSE IF w.val = 0 THEN Ok(0)
        ELSE LET e == FirstError(<<
                     _validate_k(k),
                     _validate_positive(T_R, "T_R"),
                     _validate_positive(Z, "Z"),
                     IF IsFloatable(Z) /\ ToFloat(Z) > 2000
                         THEN Err("Z:unusually_high") ELSE Ok(0),
                     _validate_positive(M_lb_per_lbmol, "M"),
                     _validate_positive(P1_psia, "P1_psia"),
                     _validate_positive(P2_psia, "P2_psia"),
                     IF IsFloatable(P2_psia) /\ IsFloatable(P1_psia)
                        /\ ToFloat(P2_psia) >= ToFloat(P1_psia)
                         THEN Err("P2_not_below_P1") ELSE Ok(0),
                     _validate_factor(Kd, "Kd", 0, 1000),
                     _validate_factor(Ke, "Ke", 0, 2000)>>, 1)
             IN  IF ~e.ok THEN e
                 ELSE LET P1 == ToFloat(P1_psia)
                          P2 == ToFloat(P2_psia)
                          r == MulDiv(P2, 10000, P1)
                          F2 == F2_subcritical(k, Num(r))
                          pressure_diff == P1 - P2
                      IN  IF ~F2.ok THEN F2
                          ELSE IF pressure_diff <= 0 THEN Err("pressure_difference")
                          ELSE LET \* sqrt(Z*T / (M*P1*dP)), at scale 10000
                                   root == ISqrt(MulDiv(
                                               TZoverM(ToFloat(T_R), ToFloat(Z),
                                                       ToFloat(M_lb_per_lbmol)),
                                               10000, P1 * pressure_diff))
                                   num == MulDiv(w.val, root, 10000)
                                   \* 735 * F2 * Kd * Ke, at scale 10000
                                   den == MulDiv(MulDiv(735 * F2.val, ToFloat(Kd), 1000),
                                                 ToFloat(Ke), 1000)
                               IN  IF den = 0 THEN Err("denominator_zero")
                                   ELSE Ok(MulDiv(num, 10000, den))

---------------------------------------------------------------------------
(* geometry/heads.py *)

\* Number of subdivisions of the two fixed-step quadratures, volume_up_to
\* and head_wetted_area_up_to (their steps parameter, 500 by default in the
\* source).
QuadSteps == 10

\* A plausible slip: a thickness equal to the radius accepted.
_validate_head_dimensions_thicker(diameter, thickness) ==
    IF IsNone(diameter) THEN Err("diameter:required")
    ELSE IF ~IsFloatable(diameter) THEN Err("diameter:not_a_number")
    ELSE IF ToFloat(diameter) <= 0 THEN Err("diameter:must_be_positive")
    ELSE IF IsNone(thickness) THEN Err("thickness:required")
    ELSE IF ~IsFloatable(thickness) THEN Err("thickness:not_a_number")
    ELSE IF ToFloat(thickness) < 0 THEN Err("thickness:negative")
    ELSE IF 2 * ToFloat(thickness) > ToFloat(diameter)
    THEN Err("thickness:not_less_than_radius")
    ELSE Ok(<<ToFloat(diameter), ToFloat(thickness)>>)

\* _validate_head_dimensions: <<diameter, thickness>> in mm, or the error.
_validate_head_dimensions(diameter, thickness) ==
    IF IsNone(diameter) THEN Err("diameter:required")
    ELSE IF ~IsFloatable(diameter) THEN Err("diameter:not_a_number")
    ELSE IF ToFloat(diameter) <= 0 THEN Err("diameter:must_be_positive")
    ELSE IF IsNone(thickness) THEN Err("thickness:required")
    ELSE IF ~IsFloatable(thickness) THEN Err("thickness:not_a_number")
    ELSE IF ToFloat(thickness) < 0 THEN Err("thickness:negative")
    ELSE IF 2 * ToFloat(thickness) >= ToFloat(diameter)
    THEN Err("thickness:not_less_than_radius")
    ELSE Ok(<<ToFloat(diameter), ToFloat(thickness)>>)

\* __post_init__ of ASMEFDHead (major 1.00, minor 0.06) and of
\* Elliptical2to1Head (major 0.90, minor 0.17); major and minor in 1/100.
\* cos(asin(x)) is computed as sqrt(1 - x^2).
TorisphericalHead(type, major, minor, D, t) ==
    LET Rc_ext == (major * D) \div 100
        Rk_ext == (minor * D) \div 100
        R_ext == D \div 2
        a_ext == Rc_ext - Rk_ext
        b_ext == R_ext - Rk_ext
        rp2_ext == (D - 2 * Rk_ext) \div 2
        hp2_ext == Rc_ext - ISqrt(a_ext * a_ext - b_ext * b_ext)
        cos_alpha_Rc == MulDiv(Rc_ext, ISqrt(a_ext * a_ext - rp2_ext * rp2_ext), a_ext)
    IN  [type |-> type, diameter |-> D, thickness |-> t,
         crown_radius |-> Rc_ext - t,
         knuckle_radius |-> Rk_ext - t,
         radius |-> R_ext - t,
         c_height_offset |-> Rc_ext, c_radius_offset |-> 0,
         k_height_offset |-> hp2_ext, k_radius_offset |-> rp2_ext,
         h1 |-> 0, h2 |-> Rc_ext - cos_alpha_Rc, h3 |-> hp2_ext]

\* __post_init__ of HemisphericalHead; it has no h3 and no crown / knuckle.
HemisphereHead(D, t) ==
    [type |-> "Hemispherical", diameter |-> D, thickness |-> t,
     crown_radius |-> 0, knuckle_radius |-> 0,
     radius |-> D \div 2 - t,
     c_height_offset |-> 0, c_radius_offset |-> 0,
     k_height_offset |-> 0, k_radius_offset |-> 0,
     h1 |-> 0, h2 |-> D \div 2 - t, h3 |-> 0 - 1]

\* The dataclass constructors ASMEFDHead(diameter, thickness),
\* Elliptical2to1Head(...) and HemisphericalHead(...): __post_init__
\* validates the dimensions, then derives the profile.
ConstructHead(head_type, diameter, thickness) ==
    LET dims == _validate_head_dimensions(diameter, thickness)
    IN  IF ~dims.ok THEN [ok |-> FALSE, err |-> dims.err, head |-> HemisphereHead(0, 0)]
        ELSE [ok |-> TRUE, err |-> "",
              head |-> IF head_type = "ASME_FD"
                       THEN TorisphericalHead("ASME_FD", 100, 6, dims.val[1], dims.val[2])
                       ELSE IF head_type = "Ellipsoidal"
                       THEN TorisphericalHead("Ellipsoidal", 90, 17, dims.val[1], dims.val[2])
                       ELSE HemisphereHead(dims.val[1], dims.val[2])]

NoHead == HemisphereHead(0, 0)

\* getattr(head, "h3", head.h2)
HeadTop(head) == IF head.type = "Hemispherical" THEN head.h2 ELSE head.h3

radius_at_height(head, h) ==
    IF head.type = "Hemispherical"
    THEN IF h <= head.h2
         THEN ISqrt(Max(head.radius * head.radius
                        - (head.radius - h) * (head.radius - h), 0))
         ELSE head.radius
    ELSE IF h <= head.h2
    THEN ISqrt(Max(head.crown_radius * head.crown_radius
                   - (h - head.c_height_offset) * (h - head.c_height_offset), 0))
         + head.c_radius_offset
    ELSE IF h <= head.h3
    THEN ISqrt(Max(head.knuckle_radius * head.knuckle_radius
                   - (h - head.k_height_offset) * (h - head.k_height_offset), 0))
         + head.k_radius_offset
    ELSE head.radius

\* pi * r^2, pi taken as 355/113.
area_at_height(head, h) ==
    LET r == radius_at_height(head, h)
    IN  MulDiv(r * r, 355, 113)

\* The loop of volume_up_to from subdivision i on: hi = h1 + i * dh and
\* total += area_at_height(hi) * dh, with dh = (h - h1) / steps.
RECURSIVE MidpointLoop(_, _, _, _)
RECURSIVE VolumeLoop(_, _, _, _)
VolumeLoop(head, h, steps, i) ==
    IF i >= steps THEN 0
    ELSE LET hi == head.h1 + (i * (h - head.h1)) \div steps
         IN  MulDiv(area_at_height(head, hi), h - head.h1, steps)
             + VolumeLoop(head, h, steps, i + 1)

\* A plausible slip: the area sampled at the middle of each subdivision.
MidpointLoop(head, h, steps, i) ==
    IF i >= steps THEN 0
    ELSE LET hi == head.h1 + ((2 * i + 1) * (h - head.h1)) \div (2 * steps)
         IN  MulDiv(area_at_height(head, hi), h - head.h1, steps)
             + MidpointLoop(head, h, steps, i + 1)

volume_up_to_midpoint(head, h, steps) == MidpointLoop(head, h, steps, 0)

volume_up_to(head, h, steps) == VolumeLoop(head, h, steps, 0)

max_head_volume(head) == volume_up_to(head, HeadTop(head), QuadSteps)

---------------------------------------------------------------------------
(* geometry/vessel.py *)

\* Iterations of the bisection of solve_height_in_head (steps=40).
BisectSteps == 40

NoneStr == "<None>"

_validate_positive_int(value, name, min_val) ==
    IF value < min_val THEN Err(name \o ":below_minimum") ELSE Ok(value)

HeadOk(h) == [ok |-> TRUE, err |-> "", head |-> h]
HeadErr(e) == [ok |-> FALSE, err |-> e, head |-> NoHead]

\* OD_m in mm, thickness_mm in 1/10 mm; thickness_m = thickness_mm / 1000.0
\* is a division by 10 in these units.
_build_head(head_type, OD_m, thickness_mm) ==
    IF head_type = NoneStr THEN HeadErr("head_type:required")
    ELSE LET e == FirstError(<<_validate_positive(OD_m, "OD_m"),
                               _validate_non_negative(thickness_mm, "thickness_mm")>>, 1)
         IN  IF ~e.ok THEN HeadErr(e.err)
             ELSE LET thickness_m == ToFloat(thickness_mm) \div 10
                      \* thickness_m >= OD_m / 2, on the unrounded values
                      too_thick == ToFloat(thickness_mm) >= 5 * ToFloat(OD_m)
                      dims == _validate_head_dimensions(OD_m, Num(thickness_m))
                  IN  IF too_thick THEN HeadErr("thickness:not_less_than_radius")
                      ELSE IF head_type \notin {"ASME_FD", "Ellipsoidal", "Hemispherical"}
                      THEN HeadErr("head_type:unsupported")
                      ELSE IF ~dims.ok THEN HeadErr(dims.err)
                      ELSE IF head_type = "ASME_FD"
                      THEN HeadOk(TorisphericalHead("ASME_FD", 100, 6,
                                                    ToFloat(OD_m), thickness_m))
                      ELSE IF head_type = "Ellipsoidal"
                      THEN HeadOk(TorisphericalHead("Ellipsoidal", 90, 17,
                                                    ToFloat(OD_m), thickness_m))
                      ELSE HeadOk(HemisphereHead(ToFloat(OD_m), thickness_m))

\* The loop of head_wetted_area_up_to from subdivision i on.  The forward
\* step of 1e-5 m is below the model's resolution and is taken as 1 mm.
\* sqrt(1 + dr_dh^2) is at scale 1000.
RECURSIVE WettedLoop(_, _, _, _, _)
WettedLoop(head, h_low, h_high, steps, i) ==
    IF i >= steps THEN 0
    ELSE LET hi == h_low + (i * (h_high - h_low)) \div steps
             r == radius_at_height(head, hi)
             h_forward == Min(hi + 1, h_high)
             r_forward == radius_at_height(head, h_forward)
             df == h_forward - hi
             dr == r_forward - r
             slope == IF h_forward # hi
                      THEN (ISqrt((df * df + dr * dr) * 10000) * 10) \div df
                      ELSE 1000
             dA == MulDiv(MulDiv(MulDiv(2 * r, slope, 1000), 355, 113),
                          h_high - h_low, steps)
         IN  dA + WettedLoop(head, h_low, h_high, steps, i + 1)

\* A plausible slip: the integral taken up to h itself, past the top of the
\* head.
head_wetted_area_up_to_uncapped(h, head, steps) ==
    LET h_low == head.h1
    IN  IF h <= h_low THEN 0
        ELSE WettedLoop(head, h_low, h, steps, 0)

head_wetted_area_up_to(h, head, steps) ==
    LET h_low == head.h1
        h_high == Min(h, HeadTop(head))
    IN  IF h <= h_low THEN 0
        ELSE WettedLoop(head, h_low, h_high, steps, 0)

\* 2 * pi * R * h
CylinderArea(R, h) == MulDiv(2 * R * h, 355, 113)

\* H and shell_height are numbers here (every caller passes floats).
wetted_area_up_to_height(H, head, shell_height, steps) ==
    IF H < 0 THEN Ok(0)
    ELSE IF shell_height < 0 THEN Err("shell_height:negative")
    ELSE LET R == head.radius
             H_head == HeadTop(head)
             H_shell == shell_height
         IN  IF H <= H_head THEN Ok(head_wetted_area_up_to(H, head, steps))
             ELSE IF H <= H_head + H_shell
             THEN Ok(head_wetted_area_up_to(H_head, head, steps)
                     + CylinderArea(R, H - H_head))
             ELSE Ok(head_wetted_area_up_to(H_head, head, steps)
                     + CylinderArea(R, H_shell)
                     + head_wetted_area_up_to(H - (H_head + H_shell), head, steps))

\* The bisection loop of solve_height_in_head with n iterations left.
RECURSIVE BisectLoop(_, _, _, _, _)
BisectLoop(V_target, head, low, high, n) ==
    IF n = 0 THEN (low + high) \div 2
    ELSE LET mid == (low + high) \div 2
             V_mid == volume_up_to(head, mid, QuadSteps)
         IN  IF V_mid < V_target THEN BisectLoop(V_target, head, mid, high, n - 1)
                                 ELSE BisectLoop(V_target, head, low, mid, n - 1)

solve_height_in_head(V_target, head, steps) ==
    BisectLoop(V_target, head, head.h1, HeadTop(head), steps)

\* pi * R^2
CylinderSection(head) == MulDiv(head.radius * head.radius, 355, 113)

liquid_height_from_volume(V_m3, head, shell_height_m) ==
    LET V_head == max_head_volume(head)
        A_cyl == CylinderSection(head)
        H_head == HeadTop(head)
        H_shell == shell_height_m
        V_rem == V_m3 - V_head
    IN  IF V_m3 <= V_head THEN solve_height_in_head(V_m3, head, BisectSteps)
        ELSE IF V_rem <= A_cyl * H_shell THEN H_head + V_rem \div A_cyl
        ELSE H_head + H_shell
             + solve_height_in_head(V_rem - A_cyl * H_shell, head, BisectSteps)

\* V_m3 and shell_height_m as passed; the head is an object already built.
wetted_area_from_volume(V_m3, head, shell_height_m, steps) ==
    LET e == FirstError(<<_validate_non_negative(V_m3, "V_m3"),
                          _validate_non_negative(shell_height_m, "shell_height_m"),
                          _validate_positive_int(steps, "steps", 10)>>, 1)
    IN  IF ~e.ok THEN Err(e.err)
        ELSE wetted_area_up_to_height(
                 liquid_height_from_volume(ToFloat(V_m3), head,
                                           ToFloat(shell_height_m)),
                 head, ToFloat(shell_height_m), steps)

GeomOk(lh, le, wa, calls) ==
    [ok |-> TRUE, err |-> "", liquid_height_m |-> lh,
     liquid_height_exposed_m |-> le, wetted_area_m2 |-> wa, calls |-> calls]
GeomErr(e) ==
    [ok |-> FALSE, err |-> e, liquid_height_m |-> 0 - 1,
     liquid_height_exposed_m |-> 0 - 1, wetted_area_m2 |-> 0 - 1, calls |-> << >>]

\* V_max = V_head * 2 + A_cyl * L_tangent_m
VesselCapacity(head, L_tangent_m) ==
    max_head_volume(head) * 2 + CylinderSection(head) * L_tangent_m

\* A plausible slip: an overfilled vessel is treated as full.
FillExceedsCapacity_clamped(fill_volume_m3, V_max) == FALSE

\* if fill_volume_m3 > V_max: raise
FillExceedsCapacity(fill_volume_m3, V_max) == fill_volume_m3 > V_max

\* A plausible slip: only a fire plane strictly below the bottom short-circuits.
FireBelowVessel_strict(fire_limit_from_vessel_bottom) ==
    fire_limit_from_vessel_bottom < 0

\* if fire_limit_from_vessel_bottom <= 0: return the zero record
FireBelowVessel(fire_limit_from_vessel_bottom) ==
    fire_limit_from_vessel_bottom <= 0

\* calls lists, in order, the helpers the call invoked after validation.
wetted_area_from_fill_volume(orientation, head_type, L_tangent_m, OD_m, thickness_mm, bottom_height_m, fire_height_m, fill_volume_m3, steps) ==
    IF orientation = NoneStr THEN GeomErr("orientation:required")
    ELSE IF orientation # "Vertical" THEN GeomErr("orientation:unsupported")
    ELSE IF head_type \notin {"ASME_FD", "Ellipsoidal", "Hemispherical"}
    THEN GeomErr("head_type:invalid")
    ELSE
    LET e == FirstError(<<_validate_positive(OD_m, "OD_m"),
                          _validate_non_negative(thickness_mm, "thickness_mm"),
                          _validate_non_negative(L_tangent_m, "L_tangent_m"),
                          _validate_non_negative(bottom_height_m, "bottom_height_m"),
                          _validate_non_negative(fire_height_m, "fire_height_m"),
                          _validate_non_negative(fill_volume_m3, "fill_volume_m3"),
                          _validate_positive_int(steps, "steps", 10)>>, 1)
    IN  IF ~e.ok THEN GeomErr(e.err)
        ELSE IF ToFloat(thickness_mm) >= 5 * ToFloat(OD_m)
        THEN GeomErr("thickness:not_less_than_radius")
        ELSE
        LET b == _build_head(head_type, OD_m, thickness_mm)
            head == b.head
            L == ToFloat(L_tangent_m)
            fill == ToFloat(fill_volume_m3)
            V_max == VesselCapacity(head, L)
            liquid_height_m == liquid_height_from_volume(fill, head, L)
            fire_limit_from_vessel_bottom ==
                ToFloat(fire_height_m) - ToFloat(bottom_height_m)
            liquid_height_exposed_m ==
                Min(liquid_height_m, fire_limit_from_vessel_bottom)
            w == wetted_area_up_to_height(liquid_height_exposed_m, head, L, steps)
        IN  IF ~b.ok THEN GeomErr(b.err)
            ELSE IF FillExceedsCapacity(fill, V_max)
            THEN GeomErr("fill_volume:exceeds_capacity")
            ELSE IF FireBelowVessel(fire_limit_from_vessel_bottom)
            THEN GeomOk(liquid_height_m, 0, 0,
                        <<"_build_head", "liquid_height_from_volume">>)
            ELSE IF ~w.ok THEN GeomErr(w.err)
            ELSE GeomOk(liquid_height_m, liquid_height_exposed_m, w.val,
                        <<"_build_head", "liquid_height_from_volume",
                          "wetted_area_up_to_height">>)

---------------------------------------------------------------------------
(* utils/validation.py *)

safe_float(value, name) ==
    IF IsNone(value) THEN Err(name \o ":required")
    ELSE IF ~IsFloatable(value) THEN Err(name \o ":not_a_number")
    ELSE Ok(ToFloat(value))

safe_positive_float(value, name, allow_zero) ==
    LET r == safe_float(value, name)
    IN  IF ~r.ok THEN r
        ELSE IF allow_zero /\ r.val < 0 THEN Err(name \o ":negative")
        ELSE IF ~allow_zero /\ r.val <= 0 THEN Err(name \o ":must_be_positive")
        ELSE r

safe_non_negative_float(value, name) == safe_positive_float(value, name, TRUE)

\* str(value) of a number or a boolean is never one of the choices.
validate_choice(value, name, valid_choices) ==
    IF IsNone(value) THEN Err(name \o ":required")
    ELSE IF IsStr(value) /\ StrTable[value[2]].s \in valid_choices
    THEN Ok(StrTable[value[2]].s)
    ELSE Err(name \o ":invalid_choice")

\* The value is TRUE or FALSE.
validate_boolean(value, name) ==
    IF IsNone(value) THEN Err(name \o ":required")
    ELSE IF IsBool(value) THEN Ok(Truthy(value))
    ELSE IF IsFloatable(value) THEN Ok(Truthy(value))
    ELSE IF IsStr(value)
    THEN IF LowerStrip(value) \in {"true", "1", "yes", "on"} THEN Ok(TRUE)
         ELSE IF LowerStrip(value) \in {"false", "0", "no", "off"} THEN Ok(FALSE)
         ELSE Err(name \o ":not_boolean")
    ELSE Err(name \o ":not_boolean")

validate_k_ratio(k) ==
    IF k <= 1000 THEN Err("k:must_be_above_1")
    ELSE IF k > 2000 THEN Err("k:unusually_high")
    ELSE Ok(k)

validate_compressibility(Z) ==
    IF Z <= 0 THEN Err("Z:must_be_positive")
    ELSE IF Z > 2000 THEN Err("Z:unusually_high")
    ELSE Ok(Z)

validate_molecular_weight(M) ==
    IF M <= 0 THEN Err("M:must_be_positive")
    ELSE IF M < 10 THEN Err("M:too_low")
    ELSE Ok(M)

validate_temperature_celsius(T_C) ==
    IF T_C < 0 - 27315 THEN Err("T_C:below_absolute_zero") ELSE Ok(T_C)

validate_correction_factor(K, name, min_val, max_val) ==
    IF K < min_val \/ K > max_val THEN Err(name \o ":out_of_range") ELSE Ok(K)

validate_percentage(value, name) ==
    IF value < 0 \/ value > 1000 THEN Err(name \o ":out_of_range") ELSE Ok(value)

\* A validated number followed by its domain check.
Then(r, check(_)) == IF ~r.ok THEN r ELSE check(r.val)

---------------------------------------------------------------------------
(* sizing/prd.py *)

VALID_FIRE_STANDARDS == {"API2000", "API520"}

\* standard is a string, or NoneStr.
fire_heat_load(standard, A_wetted_m2, P_design_barg, firefighting) ==
    IF standard = NoneStr THEN HeatErr("standard:required")
    ELSE IF standard \notin VALID_FIRE_STANDARDS THEN HeatErr("standard:unknown")
    ELSE LET a == _validate_non_negative(A_wetted_m2, "A_wetted_m2")
         IN  IF ~a.ok THEN HeatErr(a.err)
             ELSE IF standard = "API2000"
             THEN heat_load_api2000(Num(a.val), P_design_barg)
             ELSE heat_load_api520(Num(a.val), firefighting)

\* A plausible slip: equality counted as critical.
is_critical_flow_inclusive(P1_psia, P_back_psig, atm_psia, k) ==
    LET P_crit == critical_downstream_pressure(P1_psia, k)
        P_down == downstream_pressure(P_back_psig, atm_psia)
    IN  IF ~P_crit.ok THEN P_crit
        ELSE IF ~P_down.ok THEN P_down
        ELSE Ok(P_crit.val >= P_down.val)

is_critical_flow(P1_psia, P_back_psig, atm_psia, k) ==
    LET P_crit == critical_downstream_pressure(P1_psia, k)
        P_down == downstream_pressure(P_back_psig, atm_psia)
    IN  IF ~P_crit.ok THEN P_crit
        ELSE IF ~P_down.ok THEN P_down
        ELSE Ok(P_crit.val > P_down.val)

\* A recorded sub-call: the function and the arguments the properties
\* refer to (0 - 1 where the function has no such argument).
Call(fn, x, y) == [fn |-> fn, x |-> x, y |-> y]

\* Lines 144-170 of size_psv_for_fire: the first error of the upfront
\* validation, or Ok(0).  a is the record of the arguments.
size_psv_for_fire_validate(a) ==
    FirstError(<<
        _validate_non_negative(a.A_wetted_m2, "A_wetted_m2"),
        _validate_positive(a.h_fg_J_per_kg, "h_fg_J_per_kg"),
        _validate_positive(a.k, "k"),
        IF IsFloatable(a.k) /\ ToFloat(a.k) <= 1000
            THEN Err("k:must_be_above_1") ELSE Ok(0),
        _validate_positive(a.Z, "Z"),
        _validate_positive(a.M_lb_per_lbmol, "M"),
        _validate_positive(a.MAWP_psig, "MAWP_psig"),
        _validate_positive(a.atm_psia, "atm_psia"),
        _validate_non_negative(a.backpressure_psig, "backpressure_psig"),
        _validate_positive(a.accum_percent, "accum_percent"),
        _validate_positive(a.Kd, "Kd"),
        _validate_positive(a.Kb, "Kb"),
        _validate_positive(a.Kc, "Kc"),
        _validate_positive(a.Ke, "Ke")>>, 1)

---------------------------------------------------------------------------
(* app.py *)

\* FIRE_HEIGHT_LIMITS, in mm.
FIRE_HEIGHT_LIMITS == [API2000 |-> 9140, API520 |-> 7620]
VALID_ORIENTATIONS == {"Vertical"}
VALID_HEAD_TYPES == {"ASME_FD", "Ellipsoidal", "Hemispherical"}

\* data.get(field) is None for an absent key; default is None when the call
\* gives none.
get_field(data, field, default) ==
    LET value == data[field]
    IN  IF IsNone(value) \/ (IsStr(value) /\ LowerStrip(value) = "")
        THEN IF ~IsNone(default) THEN Ok(default) ELSE Err(field \o ":missing")
        ELSE Ok(value)

\* P_operating_psig * 0.0689476, in 1/1000 barg.
PsigToBarg(P) ==
    IF P >= 0 THEN MulDiv(P, 689476, 100000)
    ELSE 0 - MulDiv(0 - P, 689476, 100000)

\* Lines 76-194 of calculate: the validation of one field of the request.
ValidateField(data, f) ==
    CASE f = "fire_standard" ->
         Then(get_field(data, f, None),
              LAMBDA v : validate_choice(v, "Fire Standard", VALID_FIRE_STANDARDS))
      [] f = "orientation" ->
         Then(get_field(data, f, None),
              LAMBDA v : validate_choice(v, "Vessel Orientation", VALID_ORIENTATIONS))
      [] f = "head_type" ->
         Then(get_field(data, f, None),
              LAMBDA v : validate_choice(v, "Head Type", VALID_HEAD_TYPES))
      [] f \in {"tangent_length_m", "shell_thickness_mm", "bottom_height_m",
                "normal_fill_volume_m3"} ->
         Then(get_field(data, f, None),
              LAMBDA v : safe_non_negative_float(v, f))
      [] f \in {"outer_diameter_m", "h_fg_kJ_per_kg", "MAWP_psig"} ->
         Then(get_field(data, f, None),
              LAMBDA v : safe_positive_float(v, f, FALSE))
      [] f = "M_g_per_mol" ->
         Then(Then(get_field(data, f, None),
                   LAMBDA v : safe_positive_float(v, f, FALSE)),
              validate_molecular_weight)
      [] f = "k" ->
         Then(Then(get_field(data, f, None),
                   LAMBDA v : safe_positive_float(v, f, FALSE)),
              validate_k_ratio)
      [] f = "Z" ->
         Then(Then(get_field(data, f, None),
                   LAMBDA v : safe_positive_float(v, f, FALSE)),
              validate_compressibility)
      [] f = "T_C" ->
         Then(Then(get_field(data, f, None), LAMBDA v : safe_float(v, f)),
              validate_temperature_celsius)
      [] f = "P_operating_psig" ->
         Then(get_field(data, f, None), LAMBDA v : safe_float(v, f))
      [] f = "atm_psia" ->
         Then(get_field(data, f, Num(147)),
              LAMBDA v : safe_positive_float(v, f, FALSE))
      [] f = "backpressure_psig" ->
         Then(get_field(data, f, Num(0)),
              LAMBDA v : safe_non_negative_float(v, f))
      [] f = "accum_percent" ->
         Then(Then(get_field(data, f, None),
                   LAMBDA v : safe_positive_float(v, f, FALSE)),
              LAMBDA x : validate_percentage(x, f))
      [] f = "firefighting" ->
         Then(get_field(data, f, None), LAMBDA v : validate_boolean(v, f))
      [] f \in {"Kd", "Kb", "Kc"} ->
         Then(Then(get_field(data, f, None),
                   LAMBDA v : safe_positive_float(v, f, FALSE)),
              LAMBDA x : validate_correction_factor(x, f, 0, 1000))
      [] f = "Ke" ->
         Then(Then(get_field(data, f, Num(1000)),
                   LAMBDA v : safe_positive_float(v, f, FALSE)),
              LAMBDA x : validate_correction_factor(x, f, 0, 2000))

\* if shell_thickness_mm / 1000.0 >= outer_diameter_m / 2: return 400
ThicknessCheck(t, od) ==
    IF t.ok /\ od.ok /\ t.val >= 5 * od.val
    THEN Err("shell_thickness_mm:not_less_than_radius")
    ELSE Ok(0)

\* The checks of lines 76-194 in program order.
ValidationOrder ==
    <<"fire_standard", "orientation", "head_type", "tangent_length_m",
      "outer_diameter_m", "shell_thickness_mm", "bottom_height_m",
      "thickness_check", "normal_fill_volume_m3", "h_fg_kJ_per_kg",
      "M_g_per_mol", "k", "Z", "T_C", "P_operating_psig", "MAWP_psig",
      "atm_psia", "backpressure_psig", "accum_percent", "firefighting",
      "Kd", "Kb", "Kc", "Ke">>

\* The local variables of calculate at line 195, or the first error raised
\* before it.
ValidateRequest(data) ==
    LET r == [f \in DOMAIN data |-> ValidateField(data, f)]
    IN  CHOOSE out \in
          {LET e == FirstError(
                        [i \in DOMAIN ValidationOrder |->
                            IF ValidationOrder[i] = "thickness_check"
                            THEN ThicknessCheck(v.shell_thickness_mm,
                                                v.outer_diameter_m)
                            ELSE v[ValidationOrder[i]]], 1)
           IN  IF ~e.ok THEN e
               ELSE Ok([f \in DOMAIN v \ {"h_fg_kJ_per_kg", "M_g_per_mol",
                                          "P_operating_psig"} |-> v[f].val]
                       @@ [fire_height_m |-> FIRE_HEIGHT_LIMITS[v.fire_standard.val],
                           h_fg_J_per_kg |-> v.h_fg_kJ_per_kg.val * 1000,
                           M_lb_per_lbmol |-> v.M_g_per_mol.val,
                           P_design_barg |-> PsigToBarg(v.P_operating_psig.val)])
             : v \in {r}} : TRUE

\* A plausible slip: the switch also taken at exactly 15 psig.
NeedsSwitch_inclusive(MAWP_psig, fire_standard) ==
    MAWP_psig >= 150 /\ fire_standard = "API2000"

\* A plausible slip: the switch kept in module state, so that once a
\* request has been switched to API520 every later API2000 request is too.
NeedsSwitch_sticky(MAWP_psig, fire_standard) ==
    /\ fire_standard = "API2000"
    /\ \/ MAWP_psig > 150
       \/ \E i \in DOMAIN trace :
              /\ trace[i].fn = "calculate"
              /\ trace[i].y.status = 200
              /\ trace[i].y.result.fire_standard_used = "API520"
              /\ StrTable[trace[i].x.fire_standard[2]].s = "API2000"

\* if MAWP_psig > 15 and fire_standard == "API2000"
NeedsSwitch(MAWP_psig, fire_standard) ==
    MAWP_psig > 150 /\ fire_standard = "API2000"

\* A plausible slip: the error response also carries what was computed.
ErrorResponse_partial(status, exc, e) ==
    [status |-> status, exc |-> exc, error |-> e, result |-> [Q_dot_W |-> 0]]

\* The JSON responses of calculate.
ErrorResponse(status, exc, e) ==
    [status |-> status, exc |-> exc, error |-> e, result |-> [none |-> 0]]
OkResponse(result) ==
    [status |-> 200, exc |-> "", error |-> "", result |-> result]
NoResponse == ErrorResponse(0, "", "")

---------------------------------------------------------------------------
(* Direct calls of the heat-load models *)

BandEdges == {18600000, 93000000, 260000000}

HeatAreaInputs ==
    {None, BadStr, Num(0 - 1), Num(0), Num(1), Num(5000000), Num(500000000)}
    \cup {Num(a + d) : a \in BandEdges, d \in (0 - Spread)..Spread}

PressureInputs ==
    {None, BadStr, Num(0 - 500), Num(0), Num(5000)}
    \cup {Num(q + d) : q \in {70, 1034}, d \in (0 - Spread)..Spread}

FirefightingInputs ==
    {None, Bool(TRUE), Bool(FALSE), Num(0), Num(2)}
    \cup {Str(i) : i \in DOMAIN StrTable}

InitHeat ==
    /\ pc = "call"
    /\ args \in ({<<"heat_load_api2000", A, P>> :
                      A \in HeatAreaInputs, P \in PressureInputs}
                 \cup {<<"heat_load_api520", A, f>> :
                      A \in HeatAreaInputs, f \in FirefightingInputs})
    /\ ret = HeatErr("")
    /\ trace = << >>
    /\ loc = NoLocals

CallHeatLoadApi2000 ==
    /\ pc = "call"
    /\ args[1] = "heat_load_api2000"
    /\ ret' = heat_load_api2000(args[2], args[3])
    /\ trace' = Append(trace, args[1])
    /\ pc' = "done"
    /\ UNCHANGED <<args, loc>>

CallHeatLoadApi520 ==
    /\ pc = "call"
    /\ args[1] = "heat_load_api520"
    /\ ret' = heat_load_api520(args[2], args[3])
    /\ trace' = Append(trace, args[1])
    /\ pc' = "done"
    /\ UNCHANGED <<args, loc>>

NextHeat == CallHeatLoadApi2000 \/ CallHeatLoadApi520

SpecHeat == InitHeat /\ [][NextHeat]_vars

C10_ZeroAreaZeroHeat ==
    (pc = "done" /\ args[2] = Num(0)) => (ret.ok /\ ret.Q = 0)

\* Both models were called with area 0 and a missing / malformed second
\* argument and returned 0.
C10_Witness ==
    /\ pc = "done" /\ args[2] = Num(0) /\ ret.ok /\ ret.Q = 0
    /\ \/ args[1] = "heat_load_api520" /\ args[3] = BadStr
       \/ args[1] = "heat_load_api2000" /\ args[3] = None

\* The wetted area of the call is a number that is not negative.
HeatAreaValid == IsFloatable(args[2]) /\ ToFloat(args[2]) >= 0

\* C11 as stated: heat_load_api2000 returns a heat load for every
\* non-negative numeric A, whatever P_design_barg is.
C11_Original ==
    (pc = "done" /\ args[1] = "heat_load_api2000" /\ HeatAreaValid) => ret.ok

\* C11: heat_load_api2000 fails with an error exactly when A is missing,
\* non-numeric or negative, or when A > 0 and P_design_barg is missing or
\* non-numeric; for A = 0 it returns 0 whatever P_design_barg is, and for
\* every A > 0 with a numeric P_design_barg it returns a heat load.
C11_Api2000Errors ==
    (pc = "done" /\ args[1] = "heat_load_api2000") =>
        /\ ret.ok = (HeatAreaValid
                     /\ (ToFloat(args[2]) = 0 \/ IsFloatable(args[3])))
        /\ (HeatAreaValid /\ ToFloat(args[2]) > 0 /\ ~IsFloatable(args[3])) =>
               ret.err \in {"pressure_missing", "pressure_not_a_number"}
        /\ ~HeatAreaValid =>
               ret.err \in {"area_missing", "area_not_a_number", "area_negative"}

\* A positive area with a missing design pressure was rejected.
C11_Witness ==
    /\ pc = "done" /\ args[1] = "heat_load_api2000"
    /\ HeatAreaValid /\ ToFloat(args[2]) > 0 /\ args[3] = None
    /\ ~ret.ok /\ ret.err = "pressure_missing"

\* C12: for every A > 0, heat_load_api520 returns C * A^0.82 with C = 43200
\* when firefighting/drainage is provided and C = 70900 otherwise; a string
\* flag counts by its meaning ("true"/"1"/"yes" provided, "false"/"0"/"no"
\* not provided, any other string is an error), a missing flag is an error,
\* and nothing but A and the flag enters the result.
C12_Api520Constant ==
    (pc = "done" /\ args[1] = "heat_load_api520"
     /\ HeatAreaValid /\ ToFloat(args[2]) > 0) =>
        LET A == ToFloat(args[2])
            flag == args[3]
            provided == {"true", "1", "yes"}
            not_provided == {"false", "0", "no"}
            yes == \/ IsStr(flag) /\ LowerStrip(flag) \in provided
                   \/ ~IsStr(flag) /\ ~IsNone(flag) /\ Truthy(flag)
            no == \/ IsStr(flag) /\ LowerStrip(flag) \in not_provided
                  \/ ~IsStr(flag) /\ ~IsNone(flag) /\ ~Truthy(flag)
        IN  /\ yes => ret.ok /\ ret.Q = PowerLaw(43200, A, 820)
            /\ no => ret.ok /\ ret.Q = PowerLaw(70900, A, 820)
            /\ IsNone(flag) => ~ret.ok /\ ret.err = "firefighting_missing"
            /\ (IsStr(flag) /\ LowerStrip(flag) \notin provided \cup not_provided)
                   => ~ret.ok /\ ret.err = "firefighting_not_boolean"

\* The string "No" was taken as "not provided".
C12_Witness ==
    /\ pc = "done" /\ args[1] = "heat_load_api520"
    /\ ToFloat(args[2]) = 5000000 /\ IsStr(args[3])
    /\ StrTable[args[3][2]].s = "No"
    /\ ret.ok /\ ret.Q = PowerLaw(70900, 5000000, 820)

---------------------------------------------------------------------------
(* Direct calls of required_area_subcritical_gas *)

SubInputs ==
    [W : {None, Num(0 - 1), Num(0), Num(5000000)},
     k : {None, Num(900), Num(1000), Num(1130), Num(1400), Num(2000),
          Num(2000 + Spread), Num(2500)},
     T_R : {Num(0), Num(53667)},
     Z : {Num(900), Num(2500)},
     M : {Num(441)},
     P1 : {Num(500), Num(2897)},
     P2 : {Num(0), Num(147), Num(500 - Spread), Num(500), Num(500 + Spread),
           Num(2897), Num(3000)},
     Kd : {Num(975), Num(1500)},
     Ke : {Num(1000)}]

InitSub ==
    /\ pc = "call"
    /\ args \in SubInputs
    /\ ret = Err("")
    /\ trace = << >>
    /\ loc = NoLocals

CallRequiredAreaSubcritical ==
    /\ pc = "call"
    /\ ret' = required_area_subcritical_gas(args.W, args.k, args.T_R, args.Z,
                  args.M, args.P1, args.P2, args.Kd, args.Ke)
    /\ trace' = Append(trace, "required_area_subcritical_gas")
    /\ pc' = "done"
    /\ UNCHANGED <<args, loc>>

NextSub == CallRequiredAreaSubcritical

SpecSub == InitSub /\ [][NextSub]_vars

\* The call's P2 >= P1, or its k is outside (1, 2].
SubInfeasible ==
    \/ args.P2[2] >= args.P1[2]
    \/ args.k[1] # "num"
    \/ args.k[2] <= 1000
    \/ args.k[2] > 2000

---------------------------------------------------------------------------
(* Direct calls of wetted_area_from_fill_volume *)

\* Fire-height limits of the two standards and elevations around them, mm.
ElevationInputs == {0, 1000, 7000, 7619, 7620, 7621, 9140, 9141, 12000}

\* The capacity of the vessel a call describes, for the inputs that build one.
CapacityOf(head_type, L, OD, t) ==
    LET b == _build_head(head_type, Num(OD), Num(t))
    IN  IF b.ok THEN VesselCapacity(b.head, L) ELSE 1000000000

FillInputs(head_type, L, OD, t) ==
    LET cap == CapacityOf(head_type, L, OD, t)
    IN  {0, 20000000, cap \div 2, cap - Spread, cap, cap + 1, cap + Spread,
         2000000000}

GeomCalls ==
    {[orientation |-> "Vertical", head_type |-> ht, L_tangent_m |-> Num(L),
      OD_m |-> Num(1000), thickness_mm |-> Num(100),
      bottom_height_m |-> Num(bh), fire_height_m |-> Num(fh),
      fill_volume_m3 |-> Num(fv)] :
        ht \in {"ASME_FD", "Ellipsoidal", "Hemispherical"}, L \in {0, 1500},
        bh \in ElevationInputs, fh \in {7620, 9140},
        fv \in {0, 20000000, 600000000, 2000000000}}
    \cup
    UNION {
      {[orientation |-> "Vertical", head_type |-> ht, L_tangent_m |-> Num(1500),
        OD_m |-> Num(1000), thickness_mm |-> Num(100),
        bottom_height_m |-> Num(bh), fire_height_m |-> Num(7620),
        fill_volume_m3 |-> Num(fv)] :
          bh \in {0, 7000, 7620}, fv \in FillInputs(ht, 1500, 1000, 100)} :
      ht \in {"ASME_FD", "Hemispherical"}}
    \cup
    {[orientation |-> o, head_type |-> ht, L_tangent_m |-> L,
      OD_m |-> OD, thickness_mm |-> t,
      bottom_height_m |-> Num(0), fire_height_m |-> Num(7620),
      fill_volume_m3 |-> fv] :
        o \in {"Vertical", "Horizontal", NoneStr}, ht \in {"ASME_FD", "Flat"},
        L \in {Num(1500), Num(0 - 1)}, OD \in {Num(1000), Num(0), None},
        t \in {Num(100), Num(5000), BadStr},
        fv \in {Num(600000000), Num(0 - 1), None}}

InitGeom ==
    /\ pc = "call"
    /\ args \in GeomCalls
    /\ ret = GeomErr("")
    /\ trace = << >>
    /\ loc = NoLocals

CallWettedAreaFromFillVolume ==
    /\ pc = "call"
    /\ ret' = wetted_area_from_fill_volume(
                  args.orientation, args.head_type, args.L_tangent_m, args.OD_m,
                  args.thickness_mm, args.bottom_height_m, args.fire_height_m,
                  args.fill_volume_m3, QuadSteps)
    /\ trace' = Append(trace, "wetted_area_from_fill_volume")
    /\ pc' = "done"
    /\ UNCHANGED <<args, loc>>

NextGeom == CallWettedAreaFromFillVolume

SpecGeom == InitGeom /\ [][NextGeom]_vars

\* The call described a vessel: every argument passed validation.
GeomBuilt ==
    /\ args.orientation = "Vertical"
    /\ args.head_type \in {"ASME_FD", "Ellipsoidal", "Hemispherical"}
    /\ \A f \in {"L_tangent_m", "OD_m", "thickness_mm", "bottom_height_m",
                 "fire_height_m", "fill_volume_m3"} :
           IsFloatable(args[f]) /\ ToFloat(args[f]) >= 0
    /\ ToFloat(args.OD_m) > 0
    /\ ToFloat(args.thickness_mm) < 5 * ToFloat(args.OD_m)

GeomCapacity ==
    CapacityOf(args.head_type, ToFloat(args.L_tangent_m), ToFloat(args.OD_m),
               ToFloat(args.thickness_mm))

\* C5: wetted_area_from_fill_volume fails with the capacity error whenever
\* the fill volume is strictly greater than 2 x max head volume +
\* pi R^2 x tangent length, returning no height/area record and never the
\* record of the full vessel; a fill volume at or below capacity is accepted.
C5_CapacityExceededFails ==
    (pc = "done" /\ GeomBuilt) =>
        IF ToFloat(args.fill_volume_m3) > GeomCapacity
        THEN /\ ~ret.ok
             /\ ret.err = "fill_volume:exceeds_capacity"
             /\ ret.calls = << >>
        ELSE /\ ret.ok
             /\ ret.liquid_height_m >= 0

C5_Witness ==
    /\ pc = "done" /\ GeomBuilt
    /\ ToFloat(args.fill_volume_m3) = GeomCapacity + 1
    /\ ~ret.ok

C5_WitnessAtCapacity ==
    /\ pc = "done" /\ GeomBuilt
    /\ ToFloat(args.fill_volume_m3) = GeomCapacity
    /\ ret.ok

\* C6: for every accepted input the exposed height is min(liquid height,
\* max(0, fire height - bottom elevation)), so 0 <= exposed <= liquid; when
\* the fire height is at or below the bottom elevation the area and the
\* exposed height are 0 and wetted_area_up_to_height is not invoked.
C6_ExposedHeight ==
    (pc = "done" /\ ret.ok) =>
        LET limit == ToFloat(args.fire_height_m) - ToFloat(args.bottom_height_m)
            invoked == \E i \in DOMAIN ret.calls :
                           ret.calls[i] = "wetted_area_up_to_height"
        IN  /\ ret.liquid_height_exposed_m
                   = Min(ret.liquid_height_m, Max(0, limit))
            /\ 0 <= ret.liquid_height_exposed_m
            /\ ret.liquid_height_exposed_m <= ret.liquid_height_m
            /\ limit <= 0 => /\ ret.wetted_area_m2 = 0
                             /\ ret.liquid_height_exposed_m = 0
                             /\ ~invoked
            /\ limit > 0 => invoked

C6_Witness ==
    /\ pc = "done" /\ ret.ok
    /\ ToFloat(args.fire_height_m) = ToFloat(args.bottom_height_m)
    /\ ret.liquid_height_m > 0
    /\ ret.wetted_area_m2 = 0

C6_WitnessFireLimited ==
    /\ pc = "done" /\ ret.ok
    /\ ret.liquid_height_exposed_m < ret.liquid_height_m
    /\ ret.liquid_height_exposed_m > 0
    /\ ret.wetted_area_m2 > 0

---------------------------------------------------------------------------
(* Direct calls of the head classes and of the vessel-geometry functions *)

HeadTypes == {"ASME_FD", "Ellipsoidal", "Hemispherical"}

\* Diameters (mm) and thicknesses (mm) of the constructor calls: valid
\* pairs, both signs, zero, and thicknesses on either side of the radius.
DiameterInputs == {None, BadStr, Num(0 - 1000), Num(0), Num(1000), Num(1200)}
ThicknessInputs ==
    {None, BadStr, Num(0 - 5), Num(0), Num(10), Num(499), Num(500), Num(501),
     Num(599), Num(600), Num(700)}

HeadCalls ==
    {<<"construct", ht, D, t>> :
        ht \in HeadTypes, D \in DiameterInputs, t \in ThicknessInputs}
    \cup
    \* _build_head takes the thickness in 1/10 mm
    {<<"_build_head", ht, D, Num(10 * t[2])>> :
        ht \in HeadTypes, D \in DiameterInputs \ {BadStr},
        t \in ThicknessInputs \ {None, BadStr}}
    \cup
    {<<"_build_head", ht, D, t>> :
        ht \in {"ASME_FD", "Flat", NoneStr}, D \in {None, Num(1000)},
        t \in {None, BadStr, Num(100), Num(5000)}}

\* Heights (mm) at which volume_up_to is evaluated: the bottom, the region
\* of the crown / knuckle breakpoint and the top of each head drawn.
HeightInputs ==
    {0, 1, 60, 118, 119, 140, 141, 142, 169, 170, 202, 203, 204, 248, 249,
     298, 299, 480, 490, 500, 590, 600}

\* volume_up_to(h_a) and volume_up_to(h_b) on one head, h1 <= h_a <= h_b <=
\* the top breakpoint of the head.
VolumeCalls ==
    {c \in {<<"volume_up_to", ht, Num(D), Num(t), h_a, h_b>> :
                ht \in HeadTypes, D \in {1000, 1200}, t \in {0, 10},
                h_a \in HeightInputs, h_b \in HeightInputs} :
        /\ c[5] <= c[6]
        /\ c[6] <= HeadTop(ConstructHead(c[2], c[3], c[4]).head)}

\* The volume held by the vessel up to liquid height H: the bottom head by
\* volume_up_to, then the cylinder, then the top head by volume_up_to on the
\* height reached inside it (the regions of liquid_height_from_volume).
vessel_volume_at_height(H, head, shell_height) ==
    LET H_head == HeadTop(head)
    IN  IF H <= H_head THEN volume_up_to(head, H, QuadSteps)
        ELSE IF H <= H_head + shell_height
        THEN max_head_volume(head) + CylinderSection(head) * (H - H_head)
        ELSE max_head_volume(head) + CylinderSection(head) * shell_height
             + volume_up_to(head, H - (H_head + shell_height), QuadSteps)

\* Liquid heights (mm) of the round trips: in the bottom head, the cylinder
\* and the top head of the vessels drawn.
LiquidHeightInputs ==
    {0, 5, 9, 60, 100, 150, 169, 170, 180, 249, 400, 490, 900, 1500, 1669, 1700,
     1749, 1800, 1900, 1990, 2100, 2400}

RoundTripCalls ==
    {c \in {<<"round_trip", ht, Num(1000), Num(t), L, H>> :
                ht \in HeadTypes, t \in {0, 10}, L \in {0, 1500},
                H \in LiquidHeightInputs} :
        c[6] <= 2 * HeadTop(ConstructHead(c[2], c[3], c[4]).head) + c[5]}

\* Volumes (mm^3) passed directly to the geometry stages: negative, zero,
\* inside every head drawn, inside every vessel drawn, and above every
\* capacity (the largest vessel drawn holds about 1.4e9 mm^3).
StageVolumeInputs ==
    {Num(0 - 1000000), Num(0), Num(10000000), Num(300000000), Num(2000000000)}

StageCalls ==
    {<<fn, ht, Num(1000), Num(10), L, V>> :
        fn \in {"liquid_height_from_volume", "wetted_area_from_volume"},
        ht \in HeadTypes, L \in {0, 1500}, V \in StageVolumeInputs}
    \cup
    {<<"wetted_area_from_volume", ht, Num(1000), Num(10), 1500, V>> :
        ht \in HeadTypes, V \in {None, BadStr}}
    \cup
    {<<"solve_height_in_head", ht, Num(1000), Num(10), 0, V>> :
        ht \in HeadTypes, V \in StageVolumeInputs}

\* Fill volumes (mm^3) of the calls that take liquid_height_from_volume at V
\* and at capacity - V: empty, inside the bottom head of every head drawn
\* (so that capacity - V is inside the top head), and inside the cylinder.
PairCalls ==
    {<<"height_pair", ht, Num(1000), Num(10), 1500, V>> :
        ht \in HeadTypes, V \in {0, 20000000, 40000000, 300000000}}

\* Liquid heights (mm) of the direct calls of wetted_area_up_to_height:
\* negative, zero, in each region and on both region boundaries of every
\* vessel drawn (breakpoints 170, 249 and 490 mm; shell 0 or 1500 mm), and
\* above the vessel.  A negative shell height is drawn as well.
WettedHeightCalls ==
    {<<"wetted_area_up_to_height", ht, Num(1000), Num(10), L, H>> :
        ht \in HeadTypes, L \in {0 - 100, 0, 1500},
        H \in {0 - 5, 0, 60, 169, 170, 171, 249, 250, 400, 490, 491, 1000,
               1669, 1670, 1671, 1749, 1750, 1990, 1991, 2100, 2600, 3000}}

\* radius_at_height on heads of every wall thickness up to 0.3 * D, at
\* heights from the bottom to the top breakpoint of the head.
RadiusCalls ==
    {c \in {<<"radius_at_height", ht, Num(1000), Num(t), 0, h>> :
                ht \in HeadTypes, t \in {0, 10, 50, 70, 100, 200, 300},
                h \in {0, 60, 120, 160, 169, 170, 200, 248, 249, 300, 400,
                       430, 450, 490, 500}} :
        c[6] <= HeadTop(ConstructHead(c[2], c[3], c[4]).head)}

\* Pairs of fill volumes of wetted_area_from_fill_volume: a region boundary
\* (0: empty, 1: bottom head full, 2: cylinder full, 3: vessel full) and
\* the volume at an offset (mm^3) from it; 1000 mm^3 is about a thousandth
\* of a unit of length on the cylinder section.
FillCalls ==
    {<<"fill_heights", ht, Num(1000), Num(t), 1500, <<boundary, offset>>>> :
        ht \in HeadTypes, t \in {0, 100}, boundary \in 0..3,
        offset \in {0 - 50000000, 0 - 1000, 0, 1000, 50000000}}

InitHead ==
    /\ pc = "call"
    /\ args \in HeadCalls \cup VolumeCalls \cup RoundTripCalls \cup StageCalls
                \cup PairCalls \cup WettedHeightCalls \cup RadiusCalls
                \cup FillCalls
    /\ ret = HeadErr("")
    /\ trace = << >>
    /\ loc = NoLocals

CallConstructHead ==
    /\ pc = "call" /\ args[1] = "construct"
    /\ ret' = ConstructHead(args[2], args[3], args[4])
    /\ trace' = Append(trace, "construct")
    /\ pc' = "done"
    /\ UNCHANGED <<args, loc>>

CallBuildHead ==
    /\ pc = "call" /\ args[1] = "_build_head"
    /\ ret' = _build_head(args[2], args[3], args[4])
    /\ trace' = Append(trace, "_build_head")
    /\ pc' = "done"
    /\ UNCHANGED <<args, loc>>

\* head.volume_up_to(h_a) and head.volume_up_to(h_b) on a head just built.
CallVolumeUpTo ==
    /\ pc = "call" /\ args[1] = "volume_up_to"
    /\ LET built == ConstructHead(args[2], args[3], args[4])
       IN  ret' = [ok |-> built.ok, err |-> built.err, head |-> built.head,
                   volume_a |-> volume_up_to(built.head, args[5], QuadSteps),
                   volume_b |-> volume_up_to(built.head, args[6], QuadSteps)]
    /\ trace' = Append(trace, "volume_up_to")
    /\ pc' = "done"
    /\ UNCHANGED <<args, loc>>

\* The volume at height H, then liquid_height_from_volume on that volume.
CallRoundTrip ==
    /\ pc = "call" /\ args[1] = "round_trip"
    /\ LET built == ConstructHead(args[2], args[3], args[4])
           V == vessel_volume_at_height(args[6], built.head, args[5])
       IN  ret' = [ok |-> built.ok, err |-> built.err, head |-> built.head,
                   volume |-> V,
                   height |-> liquid_height_from_volume(V, built.head, args[5])]
    /\ trace' = Append(trace, "liquid_height_from_volume")
    /\ pc' = "done"
    /\ UNCHANGED <<args, loc>>

\* liquid_height_from_volume(V_m3, head, shell_height_m) called directly;
\* it has no raise statement, so a numeric call always returns.
CallLiquidHeightFromVolume ==
    /\ pc = "call" /\ args[1] = "liquid_height_from_volume"
    /\ ret' = Ok(liquid_height_from_volume(
                     ToFloat(args[6]),
                     ConstructHead(args[2], args[3], args[4]).head, args[5]))
    /\ trace' = Append(trace, "liquid_height_from_volume")
    /\ pc' = "done"
    /\ UNCHANGED <<args, loc>>

\* solve_height_in_head(V_target, head) called directly; no raise statement.
CallSolveHeightInHead ==
    /\ pc = "call" /\ args[1] = "solve_height_in_head"
    /\ ret' = Ok(solve_height_in_head(
                     ToFloat(args[6]),
                     ConstructHead(args[2], args[3], args[4]).head, BisectSteps))
    /\ trace' = Append(trace, "solve_height_in_head")
    /\ pc' = "done"
    /\ UNCHANGED <<args, loc>>

CallWettedAreaFromVolume ==
    /\ pc = "call" /\ args[1] = "wetted_area_from_volume"
    /\ ret' = wetted_area_from_volume(
                  args[6], ConstructHead(args[2], args[3], args[4]).head,
                  Num(args[5]), QuadSteps)
    /\ trace' = Append(trace, "wetted_area_from_volume")
    /\ pc' = "done"
    /\ UNCHANGED <<args, loc>>

\* liquid_height_from_volume at V and at V_max - V, V_max the capacity that
\* wetted_area_from_fill_volume computes (vessel.py 203-206).
CallHeightPair ==
    /\ pc = "call" /\ args[1] = "height_pair"
    /\ LET built == ConstructHead(args[2], args[3], args[4])
           V_max == VesselCapacity(built.head, args[5])
       IN  ret' = [ok |-> built.ok, err |-> built.err, head |-> built.head,
                   V_max |-> V_max,
                   height |-> liquid_height_from_volume(
                                  args[6], built.head, args[5]),
                   height_rest |-> liquid_height_from_volume(
                                       V_max - args[6], built.head, args[5])]
    /\ trace' = Append(trace, "liquid_height_from_volume")
    /\ pc' = "done"
    /\ UNCHANGED <<args, loc>>

CallWettedAreaUpToHeight ==
    /\ pc = "call" /\ args[1] = "wetted_area_up_to_height"
    /\ ret' = wetted_area_up_to_height(
                  args[6], ConstructHead(args[2], args[3], args[4]).head,
                  args[5], QuadSteps)
    /\ trace' = Append(trace, "wetted_area_up_to_height")
    /\ pc' = "done"
    /\ UNCHANGED <<args, loc>>

\* head.radius_at_height(h) on a head just built.
CallRadiusAtHeight ==
    /\ pc = "call" /\ args[1] = "radius_at_height"
    /\ LET built == ConstructHead(args[2], args[3], args[4])
       IN  ret' = [ok |-> built.ok, err |-> built.err, head |-> built.head,
                   val |-> radius_at_height(built.head, args[6])]
    /\ trace' = Append(trace, "radius_at_height")
    /\ pc' = "done"
    /\ UNCHANGED <<args, loc>>

\* The fill volume at a region boundary of the vessel.
BoundaryVolume(head, L, boundary) ==
    IF boundary = 0 THEN 0
    ELSE IF boundary = 1 THEN max_head_volume(head)
    ELSE IF boundary = 2 THEN max_head_volume(head) + CylinderSection(head) * L
    ELSE VesselCapacity(head, L)

\* wetted_area_from_fill_volume on a vertical vessel, with the fire plane
\* at the vessel bottom, for the volume at a region boundary and for the
\* volume at an offset from it (thickness in 1/10 mm).
CallFillHeights ==
    /\ pc = "call" /\ args[1] = "fill_heights"
    /\ LET head == _build_head(args[2], args[3], args[4]).head
           V_base == BoundaryVolume(head, args[5], args[6][1])
           at_base == wetted_area_from_fill_volume(
                          "Vertical", args[2], Num(args[5]), args[3], args[4],
                          Num(0), Num(0), Num(V_base), QuadSteps)
           at_offset == wetted_area_from_fill_volume(
                            "Vertical", args[2], Num(args[5]), args[3], args[4],
                            Num(0), Num(0), Num(V_base + args[6][2]), QuadSteps)
       IN  ret' = [ok |-> at_base.ok /\ at_offset.ok, err |-> at_offset.err,
                   head |-> head,
                   height_base |-> at_base.liquid_height_m,
                   height_offset |-> at_offset.liquid_height_m]
    /\ trace' = Append(trace, "wetted_area_from_fill_volume")
    /\ pc' = "done"
    /\ UNCHANGED <<args, loc>>

NextHead ==
    \/ CallConstructHead
    \/ CallBuildHead
    \/ CallVolumeUpTo
    \/ CallRoundTrip
    \/ CallLiquidHeightFromVolume
    \/ CallSolveHeightInHead
    \/ CallWettedAreaFromVolume
    \/ CallHeightPair
    \/ CallWettedAreaUpToHeight
    \/ CallRadiusAtHeight
    \/ CallFillHeights

SpecHead == InitHead /\ [][NextHead]_vars

\* C13: constructing any of the three head profiles from numbers D and t
\* fails, with an error naming the offending dimension, exactly when D <= 0,
\* t < 0 or t >= D/2, and succeeds for every other (D, t); _build_head
\* applies the same test after converting the thickness from mm to m.
C13_HeadConstruction ==
    /\ (pc = "done" /\ args[1] = "construct"
        /\ IsFloatable(args[3]) /\ IsFloatable(args[4])) =>
           LET D == ToFloat(args[3])
               t == ToFloat(args[4])
           IN  /\ ret.ok = ~(D <= 0 \/ t < 0 \/ 2 * t >= D)
               /\ D <= 0 => ret.err = "diameter:must_be_positive"
               /\ (D > 0 /\ t < 0) => ret.err = "thickness:negative"
               /\ (D > 0 /\ t >= 0 /\ 2 * t >= D) =>
                      ret.err = "thickness:not_less_than_radius"
               /\ ret.ok => /\ ret.head.type = args[2]
                            /\ ret.head.diameter = D
                            /\ ret.head.thickness = t
    /\ (pc = "done" /\ args[1] = "_build_head" /\ args[2] \in HeadTypes
        /\ IsFloatable(args[3]) /\ IsFloatable(args[4])) =>
           LET D == ToFloat(args[3])
               \* thickness_mm in 1/10 mm against D in mm
               t == ToFloat(args[4])
           IN  /\ ret.ok = ~(D <= 0 \/ t < 0 \/ t >= 5 * D)
               /\ D <= 0 => ret.err = "OD_m:must_be_positive"
               /\ (D > 0 /\ t < 0) => ret.err = "thickness_mm:negative"
               /\ (D > 0 /\ t >= 0 /\ t >= 5 * D) =>
                      ret.err = "thickness:not_less_than_radius"
               /\ ret.ok => /\ ret.head.type = args[2]
                            /\ ret.head.thickness = t \div 10

\* A head whose thickness equals its radius was refused by the constructor.
C13_Witness ==
    /\ pc = "done" /\ args[1] = "construct"
    /\ args[3] = Num(1000) /\ args[4] = Num(500)
    /\ ~ret.ok /\ ret.err = "thickness:not_less_than_radius"

\* A head one millimetre thinner than its radius was constructed.
C13_WitnessBuilt ==
    /\ pc = "done" /\ args[1] = "construct"
    /\ args[3] = Num(1000) /\ args[4] = Num(499)
    /\ ret.ok /\ ret.head.radius = 1

\* C14: for each of the three head variants and every constructible (D, t),
\* volume_up_to(h1) = 0 and volume_up_to is monotonically non-decreasing in
\* h over [h1, top breakpoint]: h_a <= h_b implies
\* volume_up_to(h_a) <= volume_up_to(h_b).
C14_VolumeMonotone ==
    (pc = "done" /\ args[1] = "volume_up_to") =>
        /\ args[5] = ret.head.h1 => ret.volume_a = 0
        /\ ret.volume_a <= ret.volume_b

\* C15: round trip.  For every head variant, shell height and liquid height
\* H in [0, total vessel height], the vessel volume at H passed to
\* liquid_height_from_volume recovers H within the bisection tolerance
\* (1e-6 * D, below one unit of length here, so one unit is allowed), in the
\* bottom head, the cylinder and the top head.
C15_RoundTrip ==
    (pc = "done" /\ args[1] = "round_trip") =>
        /\ ret.height - args[6] <= 1
        /\ args[6] - ret.height <= 1

\* The capacity the volume of a direct stage call is measured against: the
\* head alone for solve_height_in_head, the whole vessel otherwise.
StageCapacity ==
    LET head == ConstructHead(args[2], args[3], args[4]).head
    IN  IF args[1] = "solve_height_in_head" THEN max_head_volume(head)
        ELSE VesselCapacity(head, args[5])

\* C17: every stage validates its own direct arguments; in particular
\* liquid_height_from_volume and solve_height_in_head called with a negative
\* volume or a volume above the vessel / head capacity, and
\* wetted_area_from_volume called with a volume above capacity, fail with an
\* error and return no height or area.
C17_StagesValidate ==
    (/\ pc = "done"
     /\ args[1] \in {"liquid_height_from_volume", "solve_height_in_head",
                     "wetted_area_from_volume"}
     /\ IsFloatable(args[6])
     /\ \/ ToFloat(args[6]) > StageCapacity
        \/ ToFloat(args[6]) < 0 /\ args[1] # "wetted_area_from_volume")
    => ~ret.ok

\* C22: a fill volume above bottom-head volume plus cylinder capacity is
\* solved inside the mirrored top head, so that liquid_height(V) +
\* liquid_height(V_max - V) equals the total vessel height for every V in
\* [0, V_max] (within one unit of length for each of the two heights).
C22_MirroredTopHead ==
    (pc = "done" /\ args[1] = "height_pair") =>
        LET total == 2 * HeadTop(ret.head) + args[5]
        IN  /\ ret.height + ret.height_rest - total <= 2
            /\ total - (ret.height + ret.height_rest) <= 2

\* The quadrature sums over the equal subdivisions of [h1, h]: the area at
\* the lower end, at the middle, and the mean of the areas at both ends of
\* each subdivision, times the width of a subdivision.
SubdivisionSum(terms) ==
    LET Sum[n \in 0..Len(terms)] == IF n = 0 THEN 0 ELSE Sum[n - 1] + terms[n]
    IN  Sum[Len(terms)]

Node(head, h, steps, num, den) == head.h1 + (num * (h - head.h1)) \div den

LeftEndpointSum(head, h, steps) ==
    SubdivisionSum([i \in 1..steps |->
        MulDiv(area_at_height(head, Node(head, h, steps, i - 1, steps)),
               h - head.h1, steps)])

MidpointSum(head, h, steps) ==
    SubdivisionSum([i \in 1..steps |->
        MulDiv(area_at_height(head, Node(head, h, steps, 2 * i - 1, 2 * steps)),
               h - head.h1, steps)])

TrapezoidSum(head, h, steps) ==
    SubdivisionSum([i \in 1..steps |->
        MulDiv((area_at_height(head, Node(head, h, steps, i - 1, steps))
                + area_at_height(head, Node(head, h, steps, i, steps))) \div 2,
               h - head.h1, steps)])

\* C23 as stated: volume_up_to(h) equals the composite midpoint sum or the
\* composite trapezoid sum over the equal subdivisions of [h1, h].
C23_Original ==
    (pc = "done" /\ args[1] = "volume_up_to") =>
        ret.volume_b \in {MidpointSum(ret.head, args[6], QuadSteps),
                          TrapezoidSum(ret.head, args[6], QuadSteps)}

\* C23: volume_up_to(h) is the composite left-endpoint (rectangle) sum of
\* area_at_height over the equal subdivisions of [h1, h]: each subdivision
\* contributes the area at its lower end times its width.
C23_LeftEndpointRule ==
    (pc = "done" /\ args[1] = "volume_up_to") =>
        /\ ret.volume_a = LeftEndpointSum(ret.head, args[5], QuadSteps)
        /\ ret.volume_b = LeftEndpointSum(ret.head, args[6], QuadSteps)

\* volume_up_to at the top of a hemispherical head, where the three sums
\* differ: the left-endpoint sum is the smallest.
C23_Witness ==
    /\ pc = "done" /\ args[1] = "volume_up_to"
    /\ args[2] = "Hemispherical" /\ args[6] = HeadTop(ret.head)
    /\ ret.volume_b > 0
    /\ ret.volume_b < TrapezoidSum(ret.head, args[6], QuadSteps)
    /\ TrapezoidSum(ret.head, args[6], QuadSteps)
         < MidpointSum(ret.head, args[6], QuadSteps)

\* The three expressions of the wetted area at liquid height H: (a) inside
\* the bottom head, (b) inside the cylinder, (c) inside the top head.
WettedCaseA(H, head, L) == head_wetted_area_up_to(H, head, QuadSteps)

WettedCaseB(H, head, L) ==
    head_wetted_area_up_to(HeadTop(head), head, QuadSteps)
    + CylinderArea(head.radius, H - HeadTop(head))

WettedCaseC(H, head, L) ==
    head_wetted_area_up_to(HeadTop(head), head, QuadSteps)
    + CylinderArea(head.radius, L)
    + Min(head_wetted_area_up_to(H - HeadTop(head) - L, head, QuadSteps),
          head_wetted_area_up_to(HeadTop(head), head, QuadSteps))

\* C25: wetted_area_up_to_height(H) is case (a) for H <= breakpoint, case
\* (b) for breakpoint < H <= breakpoint + shell height, and case (c) above,
\* the top-head term being capped at one full head; (a) and (b) agree at
\* H = breakpoint, (b) and (c) at H = breakpoint + shell height; a negative
\* H yields 0.
C25_ThreeCases ==
    (pc = "done" /\ args[1] = "wetted_area_up_to_height") =>
        LET head == ConstructHead(args[2], args[3], args[4]).head
            H == args[6]
            L == args[5]
            H_head == HeadTop(head)
        IN  /\ H < 0 => ret = Ok(0)
            /\ (H >= 0 /\ L >= 0) =>
                /\ ret.ok
                /\ H <= H_head => ret.val = WettedCaseA(H, head, L)
                /\ (H_head < H /\ H <= H_head + L) =>
                       ret.val = WettedCaseB(H, head, L)
                /\ H > H_head + L => ret.val = WettedCaseC(H, head, L)
                /\ H = H_head => WettedCaseA(H, head, L) = WettedCaseB(H, head, L)
                /\ H = H_head + L =>
                       WettedCaseB(H, head, L) = WettedCaseC(H, head, L)
                /\ H >= 2 * H_head + L =>
                       ret.val = 2 * WettedCaseA(H_head, head, L)
                                 + CylinderArea(head.radius, L)

\* A liquid height above the vessel: the top head contributed one full
\* head and no more.
C25_Witness ==
    /\ pc = "done" /\ args[1] = "wetted_area_up_to_height"
    /\ args[2] = "ASME_FD" /\ args[5] = 1500 /\ args[6] = 3000
    /\ ret.ok
    /\ ret.val = 2 * head_wetted_area_up_to(170, ConstructHead(args[2], args[3], args[4]).head, QuadSteps)
                 + CylinderArea(490, 1500)
    /\ ret.val > CylinderArea(490, 1500)

\* The liquid height on the boundary between cylinder and top head.
C25_WitnessBoundary ==
    /\ pc = "done" /\ args[1] = "wetted_area_up_to_height"
    /\ args[2] = "Ellipsoidal" /\ args[5] = 1500
    /\ args[6] = HeadTop(ConstructHead(args[2], args[3], args[4]).head) + 1500
    /\ ret.ok /\ ret.val > 0

\* C28: for every constructible head of any variant and every h in
\* [h1, top breakpoint], 0 <= radius_at_height(h) <= D/2 - t, and
\* radius_at_height(top breakpoint) is the cylinder-matching internal radius
\* D/2 - t (within one unit of length), also when the wall is thicker than
\* the external knuckle radius.
C28_RadiusWithinShell ==
    (pc = "done" /\ args[1] = "radius_at_height") =>
        LET R == ToFloat(args[3]) \div 2 - ToFloat(args[4])
        IN  /\ ret.ok
            /\ 0 <= ret.val /\ ret.val <= R + 1
            /\ args[6] = HeadTop(ret.head) => ret.val >= R - 1

\* C29: for every fill volume accepted by wetted_area_from_fill_volume the
\* liquid height lies in [0, 2 * H_head + tangent length], is non-decreasing
\* in the volume, and is continuous across the region boundaries: the
\* volume of the bottom head maps to the head breakpoint, bottom head plus
\* cylinder to breakpoint + tangent length, the capacity to the total
\* height, and a volume next to a boundary maps to a height next to that of
\* the boundary (within one unit of length, above the bisection tolerance).
C29_LiquidHeight ==
    (pc = "done" /\ args[1] = "fill_heights" /\ ret.ok) =>
        LET H_head == HeadTop(ret.head)
            total == 2 * H_head + args[5]
            boundary == args[6][1]
            offset == args[6][2]
            expected == IF boundary = 0 THEN 0
                        ELSE IF boundary = 1 THEN H_head
                        ELSE IF boundary = 2 THEN H_head + args[5]
                        ELSE total
        IN  /\ 0 <= ret.height_base /\ ret.height_base <= total
            /\ 0 <= ret.height_offset /\ ret.height_offset <= total
            /\ offset >= 0 => ret.height_base <= ret.height_offset
            /\ offset <= 0 => ret.height_offset <= ret.height_base
            /\ boundary \in 1..3 =>
                  /\ ret.height_base - expected <= 1
                  /\ expected - ret.height_base <= 1
            /\ (boundary \in 1..2 /\ offset \in {0 - 1000, 1000}) =>
                  /\ ret.height_offset - ret.height_base <= 1
                  /\ ret.height_base - ret.height_offset <= 1

---------------------------------------------------------------------------
(* The bisection of solve_height_in_head, iteration by iteration *)

\* low and high are kept exactly, as fractions of the interval [h1, top
\* breakpoint] with denominator 2^BisectSteps, written in two digits of
\* base LimbBase: <<d1, d0>> stands for (d1 * LimbBase + d0) / 2^BisectSteps.
\* volume_up_to is evaluated at the height in whole units of length.
LimbBase == 2 ^ (BisectSteps \div 2)

IntervalBottom == <<0, 0>>
IntervalTop == <<LimbBase, 0>>

LimbLeq(a, b) == a[1] < b[1] \/ (a[1] = b[1] /\ a[2] <= b[2])

LimbAdd(a, b) ==
    <<a[1] + b[1] + (a[2] + b[2]) \div LimbBase, (a[2] + b[2]) % LimbBase>>

LimbSub(a, b) ==
    IF a[2] >= b[2] THEN <<a[1] - b[1], a[2] - b[2]>>
    ELSE <<a[1] - b[1] - 1, a[2] + LimbBase - b[2]>>

\* 0.5 * s
LimbHalf(s) == <<s[1] \div 2, (s[2] + (s[1] % 2) * LimbBase) \div 2>>

\* The height in units of length at fraction a of [h1, top breakpoint].
HeightAt(head, a) == head.h1 + ((HeadTop(head) - head.h1) * a[1]) \div LimbBase

\* A plausible slip: the loop left as soon as the interval is below the
\* unit of length.
BisectContinues_converged(n, steps, low, high) ==
    n < steps /\ LimbLeq(<<1, 0>>, LimbSub(high, low))

\* for _ in range(steps): the loop body runs while iterations remain.
BisectContinues(n, steps, low, high) == n < steps

BisectCalls ==
    {<<"solve_height_in_head", ht, Num(1000), Num(t), 0, V>> :
        ht \in HeadTypes, t \in {0, 10},
        V \in {0, 10000000, 40000000, 70000000, 2000000000}}

InitBisect ==
    /\ pc = "call"
    /\ args \in BisectCalls
    /\ ret = Ok(0)
    /\ trace = << >>
    /\ loc = NoLocals

\* low = head.h1; high = getattr(head, "h3", head.h2)
BisectEnter ==
    /\ pc = "call"
    /\ loc' = [head |-> ConstructHead(args[2], args[3], args[4]).head,
               V_target |-> args[6],
               low |-> IntervalBottom, high |-> IntervalTop, n |-> 0]
    /\ trace' = <<[low |-> IntervalBottom, high |-> IntervalTop]>>
    /\ pc' = "loop"
    /\ UNCHANGED <<args, ret>>

\* One pass of the loop body.
BisectStep ==
    /\ pc = "loop"
    /\ BisectContinues(loc.n, BisectSteps, loc.low, loc.high)
    /\ LET mid == LimbHalf(LimbAdd(loc.low, loc.high))
           V_mid == volume_up_to(loc.head, HeightAt(loc.head, mid), QuadSteps)
       IN  /\ loc' = IF V_mid < loc.V_target
                     THEN [loc EXCEPT !.low = mid, !.n = @ + 1]
                     ELSE [loc EXCEPT !.high = mid, !.n = @ + 1]
           /\ trace' = Append(trace, [low |-> loc'.low, high |-> loc'.high])
    /\ UNCHANGED <<pc, args, ret>>

\* return 0.5 * (low + high)
BisectReturn ==
    /\ pc = "loop"
    /\ ~BisectContinues(loc.n, BisectSteps, loc.low, loc.high)
    /\ ret' = Ok(HeightAt(loc.head, LimbHalf(LimbAdd(loc.low, loc.high))))
    /\ pc' = "done"
    /\ UNCHANGED <<args, trace, loc>>

NextBisect == BisectEnter \/ BisectStep \/ BisectReturn

SpecBisect == InitBisect /\ [][NextBisect]_vars

\* C24: solve_height_in_head returns after exactly 40 iterations; after
\* every iteration h1 <= low <= high <= top breakpoint and high - low is
\* exactly half of its previous value; the returned midpoint lies in
\* [h1, top breakpoint]; and for volume_up_to(h1) <= V <= volume_up_to(top)
\* the interval brackets V, so that the returned height is within the
\* resolution of a height where volume_up_to reaches V (one unit of length
\* here, the grid volume_up_to is evaluated on).  The result agrees with
\* solve_height_in_head computed in one piece.
C24_Bisection ==
    /\ pc = "done" => loc.n = BisectSteps
    /\ pc \in {"loop", "done"} =>
        /\ Len(trace) = loc.n + 1
        /\ LimbLeq(IntervalBottom, loc.low) /\ LimbLeq(loc.low, loc.high)
        /\ LimbLeq(loc.high, IntervalTop)
        /\ \A i \in 1..(Len(trace) - 1) :
              LimbAdd(LimbSub(trace[i + 1].high, trace[i + 1].low),
                      LimbSub(trace[i + 1].high, trace[i + 1].low))
                = LimbSub(trace[i].high, trace[i].low)
        /\ (loc.V_target >= 0 /\ loc.V_target <= max_head_volume(loc.head)) =>
              /\ volume_up_to(loc.head, HeightAt(loc.head, loc.low), QuadSteps)
                   <= loc.V_target
              /\ loc.V_target
                   <= volume_up_to(loc.head, HeightAt(loc.head, loc.high), QuadSteps)
    /\ pc = "done" =>
        /\ loc.head.h1 <= ret.val /\ ret.val <= HeadTop(loc.head)
        /\ HeightAt(loc.head, loc.high) - HeightAt(loc.head, loc.low) <= 1
        /\ HeightAt(loc.head, loc.low) <= ret.val
        /\ ret.val <= HeightAt(loc.head, loc.high)
        /\ (loc.V_target >= 0 /\ loc.V_target <= max_head_volume(loc.head)) =>
              LET whole == solve_height_in_head(loc.V_target, loc.head, BisectSteps)
              IN  ret.val - whole <= 1 /\ whole - ret.val <= 1

\* A volume inside the head was solved: the loop ran all its iterations and
\* returned a height strictly inside the head.
C24_Witness ==
    /\ pc = "done" /\ loc.n = BisectSteps
    /\ loc.V_target = 40000000
    /\ LimbSub(loc.high, loc.low) = <<0, 1>>
    /\ ret.val > loc.head.h1 /\ ret.val < HeadTop(loc.head)

---------------------------------------------------------------------------
(* The request pipeline: POST /calculate *)

BaseRequest ==
    [fire_standard |-> StrOf("API2000"), orientation |-> StrOf("Vertical"),
     head_type |-> StrOf("ASME_FD"), tangent_length_m |-> Num(1500),
     outer_diameter_m |-> Num(1000), shell_thickness_mm |-> Num(100),
     bottom_height_m |-> Num(0), normal_fill_volume_m3 |-> Num(600000000),
     h_fg_kJ_per_kg |-> Num(300), M_g_per_mol |-> Num(440), k |-> Num(1400),
     Z |-> Num(900), T_C |-> Num(5000), P_operating_psig |-> Num(100),
     MAWP_psig |-> Num(2500), atm_psia |-> None, backpressure_psig |-> None,
     accum_percent |-> Num(100), firefighting |-> Bool(TRUE),
     Kd |-> Num(975), Kb |-> Num(1000), Kc |-> Num(1000), Ke |-> None]

\* MAWP values around the 15 psig limit of API 2000, in 1/10 psi.
MAWPInputs ==
    {150 + d : d \in (0 - Spread)..Spread} \cup {100, 2500}

\* The backpressure at which the downstream pressure equals the critical
\* downstream pressure of the request, in 1/10 psig.
CriticalBackpressure(MAWP, accum, atm, k) ==
    LET P1 == relieving_pressure(Num(MAWP), Num(atm),
                                 Num(max_accumulation(Num(MAWP), Num(accum)).val))
    IN  critical_downstream_pressure(Num(P1.val), Num(k)).val - atm

BackpressureInputs(MAWP, accum, atm, k) ==
    LET b == CriticalBackpressure(MAWP, accum, atm, k)
    IN  {0, b \div 2, b + (MAWP \div 2), MAWP + MAWP}
        \cup {b + d : d \in (0 - Spread)..Spread}

Requests ==
    {[BaseRequest EXCEPT !.fire_standard = StrOf(fs), !.MAWP_psig = Num(p),
                         !.bottom_height_m = Num(bh), !.head_type = StrOf(ht),
                         !.firefighting = ff, !.P_operating_psig = Num(po)] :
        fs \in {"API2000", "API520"}, p \in MAWPInputs,
        bh \in {0, 7000, 8000, 10000},
        ht \in {"ASME_FD", "Hemispherical"},
        ff \in {Bool(TRUE), Str(7)}, po \in {50, 200}}
    \cup
    UNION {UNION {UNION {
      {[BaseRequest EXCEPT !.MAWP_psig = Num(p), !.k = Num(kk),
                           !.accum_percent = Num(ac),
                           !.backpressure_psig = Num(bp),
                           !.atm_psia = Num(147)] :
          bp \in BackpressureInputs(p, ac, 147, kk)} :
      p \in {150, 2500}} : kk \in {1100, 1400, 2000}} : ac \in {100, 210}}
    \cup
    {[BaseRequest EXCEPT ![f] = v] :
        f \in DOMAIN BaseRequest,
        v \in {None, BadStr, Num(0), Num(0 - 1), Num(1200), Str(19), Str(13)}}
    \cup
    {[BaseRequest EXCEPT !.normal_fill_volume_m3 = Num(fv),
                         !.shell_thickness_mm = Num(t)] :
        fv \in {0, 20000000, 2000000000}, t \in {0, 100, 4990, 5000}}

Init ==
    /\ pc = "validate"
    /\ args \in Requests
    /\ ret = NoResponse
    /\ trace = << >>
    /\ loc = NoLocals

\* app.py 76-194: field validation.
Validate ==
    /\ pc = "validate"
    /\ LET v == ValidateRequest(args)
       IN  IF v.ok
           THEN /\ loc' = v.val
                /\ pc' = "auto_switch"
                /\ ret' = ret
           ELSE /\ ret' = ErrorResponse(400,
                              IF v.err = "shell_thickness_mm:not_less_than_radius"
                              THEN "" ELSE "ValidationError", v.err)
                /\ pc' = "done"
                /\ loc' = loc
    /\ trace' = Append(trace, Call("validate", 0 - 1, 0 - 1))
    /\ UNCHANGED args

\* A plausible slip: the switch written to state shared between requests,
\* so that a request in flight at the same time is switched as well.
AutoSwitch_shared ==
    /\ pc = "auto_switch"
    /\ LET switched == NeedsSwitch(loc.MAWP_psig, loc.fire_standard)
           others == [i \in DOMAIN trace[1].x |->
                        IF trace[1].x[i].loc # NoLocals
                        THEN [trace[1].x[i] EXCEPT
                                 !.loc.fire_standard = "API520",
                                 !.loc.fire_height_m = FIRE_HEIGHT_LIMITS["API520"]]
                        ELSE trace[1].x[i]]
       IN  /\ loc' = IF switched
                     THEN [loc EXCEPT !.fire_standard = "API520",
                                      !.fire_height_m = FIRE_HEIGHT_LIMITS["API520"]]
                     ELSE loc
           /\ trace' = Append(IF switched THEN [trace EXCEPT ![1].x = others]
                              ELSE trace,
                              Call("auto_switch", 0 - 1, 0 - 1))
    /\ pc' = "geometry"
    /\ UNCHANGED <<args, ret>>

\* app.py 196-199: the fire standard is switched when API 2000 does not apply.
AutoSwitch ==
    /\ pc = "auto_switch"
    /\ loc' = IF NeedsSwitch(loc.MAWP_psig, loc.fire_standard)
              THEN [loc EXCEPT !.fire_standard = "API520",
                               !.fire_height_m = FIRE_HEIGHT_LIMITS["API520"]]
              ELSE loc
    /\ pc' = "geometry"
    /\ trace' = Append(trace, Call("auto_switch", 0 - 1, 0 - 1))
    /\ UNCHANGED <<args, ret>>

\* app.py 202-214: the wetted area from the fill volume; the recorded call
\* carries the fire height passed.
Geometry ==
    /\ pc = "geometry"
    /\ LET g == wetted_area_from_fill_volume(
                    loc.orientation, loc.head_type, Num(loc.tangent_length_m),
                    Num(loc.outer_diameter_m), Num(loc.shell_thickness_mm),
                    Num(loc.bottom_height_m), Num(loc.fire_height_m),
                    Num(loc.normal_fill_volume_m3), QuadSteps)
       IN  IF g.ok
           THEN /\ loc' = [A_wetted_m2 |-> g.wetted_area_m2,
                           liquid_height_m |-> g.liquid_height_m,
                           liquid_height_exposed_m |-> g.liquid_height_exposed_m]
                          @@ loc
                /\ pc' = "sizing"
                /\ ret' = ret
           ELSE /\ ret' = ErrorResponse(400, "ValueError", g.err)
                /\ pc' = "done"
                /\ loc' = loc
    /\ trace' = Append(trace, Call("wetted_area_from_fill_volume",
                                   loc.fire_height_m, 0 - 1))
    /\ UNCHANGED args

\* app.py 217-235: the arguments of the call of size_psv_for_fire.
SizeArgs ==
    [A_wetted_m2 |-> Num(loc.A_wetted_m2), fire_standard |-> loc.fire_standard,
     P_design_barg |-> Num(loc.P_design_barg),
     firefighting |-> Bool(loc.firefighting),
     h_fg_J_per_kg |-> Num(loc.h_fg_J_per_kg), k |-> Num(loc.k),
     Z |-> Num(loc.Z), M_lb_per_lbmol |-> Num(loc.M_lb_per_lbmol),
     T_C |-> Num(loc.T_C), MAWP_psig |-> Num(loc.MAWP_psig),
     atm_psia |-> Num(loc.atm_psia), accum_percent |-> Num(loc.accum_percent),
     backpressure_psig |-> Num(loc.backpressure_psig), Kd |-> Num(loc.Kd),
     Kb |-> Num(loc.Kb), Kc |-> Num(loc.Kc), Ke |-> Num(loc.Ke)]

\* A step of size_psv_for_fire went through: its locals are kept.
StepDone(locals, next_pc, call) ==
    /\ loc' = locals @@ loc
    /\ pc' = next_pc
    /\ trace' = Append(trace, call)
    /\ UNCHANGED <<args, ret>>

\* A step of size_psv_for_fire raised ValueError: calculate answers 400.
StepRaised(e, call) ==
    /\ ret' = ErrorResponse(400, "ValueError", e)
    /\ pc' = "done"
    /\ trace' = Append(trace, call)
    /\ UNCHANGED <<args, loc>>

\* prd.py 144-170: the upfront validation of size_psv_for_fire.
SizingValidate ==
    /\ pc = "sizing"
    /\ LET e == size_psv_for_fire_validate(SizeArgs)
           call == Call("size_psv_for_fire", 0 - 1, 0 - 1)
       IN  IF e.ok THEN StepDone([sizing |-> TRUE], "heat_load", call)
           ELSE StepRaised(e.err, call)

\* prd.py 175-180: the fire heat load, W.
HeatLoad ==
    /\ pc = "heat_load"
    /\ LET a == SizeArgs
           Q == fire_heat_load(a.fire_standard, a.A_wetted_m2, a.P_design_barg,
                               a.firefighting)
           call == Call(IF a.fire_standard = "API2000" THEN "heat_load_api2000"
                        ELSE "heat_load_api520", 0 - 1, 0 - 1)
       IN  IF Q.ok THEN StepDone([Q_dot_W |-> Q.Q], "evaporation", call)
           ELSE StepRaised(Q.err, call)

\* prd.py 185-191: the evaporation rate and the unit conversions.
Evaporation ==
    /\ pc = "evaporation"
    /\ LET a == SizeArgs
           m_kg_hr == evaporation_rate_kg_per_hr(Num(loc.Q_dot_W), a.h_fg_J_per_kg)
           W_lb_hr == kg_hr_to_lb_hr(Num(m_kg_hr.val))
           T_R == C_to_R(a.T_C)
           e == FirstError(<<m_kg_hr, W_lb_hr, T_R>>, 1)
           call == Call("evaporation_rate_kg_per_hr", 0 - 1, 0 - 1)
       IN  IF e.ok
           THEN StepDone([m_kg_hr |-> m_kg_hr.val, W_lb_hr |-> W_lb_hr.val,
                          T_R |-> T_R.val], "relieving_pressure", call)
           ELSE StepRaised(e.err, call)

\* prd.py 196-197: the accumulation and the relieving pressure P1.
RelievingPressure ==
    /\ pc = "relieving_pressure"
    /\ LET a == SizeArgs
           accum_psig == max_accumulation(a.MAWP_psig, a.accum_percent)
           P1_psia == relieving_pressure(a.MAWP_psig, a.atm_psia,
                                         Num(accum_psig.val))
           e == FirstError(<<accum_psig, P1_psia>>, 1)
           call == Call("relieving_pressure", 0 - 1, 0 - 1)
       IN  IF e.ok
           THEN StepDone([accum_psig |-> accum_psig.val, P1_psia |-> P1_psia.val],
                         "criticality", call)
           ELSE StepRaised(e.err, call)

\* prd.py 202: the criticality test; the recorded call carries P1.
Criticality ==
    /\ pc = "criticality"
    /\ LET a == SizeArgs
           critical == is_critical_flow(Num(loc.P1_psia), a.backpressure_psig,
                                        a.atm_psia, a.k)
           call == Call("is_critical_flow", loc.P1_psia, 0 - 1)
       IN  IF critical.ok
           THEN StepDone([critical |-> critical.val], "required_area", call)
           ELSE StepRaised(critical.err, call)

\* prd.py 207-215: the required area by the equation of the flow regime;
\* the recorded call carries P1 and, for the subcritical equation, P2.
RequiredArea ==
    /\ pc = "required_area"
    /\ LET a == SizeArgs
           W == Num(loc.W_lb_hr)
           T_R == Num(loc.T_R)
           P1 == Num(loc.P1_psia)
       IN  IF loc.critical
           THEN LET A_req == required_area_critical_gas(
                                 W, a.k, T_R, a.Z, a.M_lb_per_lbmol, P1,
                                 a.Kd, a.Kb, a.Kc)
                    call == Call("required_area_critical_gas", loc.P1_psia, 0 - 1)
                IN  IF A_req.ok
                    THEN StepDone([A_req |-> A_req.val], "select_orifice", call)
                    ELSE StepRaised(A_req.err, call)
           ELSE LET P2_psia == downstream_pressure(a.backpressure_psig, a.atm_psia)
                    A_req == required_area_subcritical_gas(
                                 W, a.k, T_R, a.Z, a.M_lb_per_lbmol, P1,
                                 Num(P2_psia.val), a.Kd, a.Ke)
                    call == Call("required_area_subcritical_gas", loc.P1_psia,
                                 P2_psia.val)
                IN  IF ~P2_psia.ok
                    THEN StepRaised(P2_psia.err,
                                    Call("downstream_pressure", 0 - 1, 0 - 1))
                    ELSE IF A_req.ok
                    THEN StepDone([A_req |-> A_req.val], "select_orifice", call)
                    ELSE StepRaised(A_req.err, call)

\* prd.py 220-233: the orifice and the dict size_psv_for_fire returns.
SelectOrifice ==
    /\ pc = "select_orifice"
    /\ LET orifice == select_orifice(Num(loc.A_req))
           call == Call("select_orifice", 0 - 1, 0 - 1)
       IN  IF orifice.ok
           THEN StepDone([result |->
                            [Q_dot_W |-> loc.Q_dot_W, m_kg_hr |-> loc.m_kg_hr,
                             W_lb_hr |-> loc.W_lb_hr, P1_psia |-> loc.P1_psia,
                             critical |-> loc.critical,
                             A_required_in2 |-> loc.A_req,
                             orifice_letter |-> orifice.letter,
                             orifice_area_in2 |-> orifice.area_in2,
                             orifice_diameter_in |-> orifice.diameter_in,
                             inlet_size_in |-> orifice.inlet_size_in]],
                         "respond", call)
           ELSE StepRaised(orifice.err, call)

\* app.py 238-244: the geometry and the standard used are added to the result.
Respond ==
    /\ pc = "respond"
    /\ ret' = OkResponse(
                  [A_wetted_m2 |-> loc.A_wetted_m2,
                   fire_height_m |-> loc.fire_height_m,
                   liquid_height_m |-> loc.liquid_height_m,
                   liquid_height_exposed_m |-> loc.liquid_height_exposed_m,
                   fire_standard_used |-> loc.fire_standard]
                  @@ loc.result)
    /\ pc' = "done"
    /\ UNCHANGED <<args, trace, loc>>

Next ==
    \/ Validate \/ AutoSwitch \/ Geometry
    \/ SizingValidate \/ HeatLoad \/ Evaporation \/ RelievingPressure
    \/ Criticality \/ RequiredArea \/ SelectOrifice
    \/ Respond

Spec == Init /\ [][Next]_vars

\* The fire standard the request chose, once it passed validation.
ChosenStandard == StrTable[args.fire_standard[2]].s

\* The request passed validation and the handler went on.
Validated == loc # NoLocals

\* The standard the handler must use for the request.
ExpectedStandard ==
    IF ToFloat(args.MAWP_psig) > 150 /\ ChosenStandard = "API2000"
    THEN "API520" ELSE ChosenStandard

CalledBefore(fn, i) == \E j \in 1..(i - 1) : trace[j].fn = fn
Called(fn) == CalledBefore(fn, Len(trace) + 1)

\* C2: when MAWP > 15 psig and the chosen standard is API2000 the handler
\* switches to API520 before the geometry is computed: the wetted-area call
\* gets the fire height 7.62 m, the heat load is the one of the API520
\* model, and the result reports fire_standard_used = API520 and
\* fire_height_m = 7.62; in every other case, MAWP of exactly 15 included,
\* the chosen standard and its own fire-height limit are used and reported.
C2_AutoSwitch ==
    Validated =>
        /\ \A i \in DOMAIN trace :
               /\ trace[i].fn = "wetted_area_from_fill_volume" =>
                      /\ trace[i].x = FIRE_HEIGHT_LIMITS[ExpectedStandard]
                      /\ CalledBefore("auto_switch", i)
               /\ trace[i].fn \in {"heat_load_api2000", "heat_load_api520"} =>
                      trace[i].fn = (IF ExpectedStandard = "API520"
                                     THEN "heat_load_api520"
                                     ELSE "heat_load_api2000")
        /\ ret.status = 200 =>
               /\ ret.result.fire_standard_used = ExpectedStandard
               /\ ret.result.fire_height_m = FIRE_HEIGHT_LIMITS[ExpectedStandard]
               /\ ret.result.Q_dot_W =
                      (IF ExpectedStandard = "API520"
                       THEN heat_load_api520(Num(ret.result.A_wetted_m2),
                                             Bool(loc.firefighting))
                       ELSE heat_load_api2000(Num(ret.result.A_wetted_m2),
                                              Num(loc.P_design_barg))).Q

\* A request just above 15 psig that chose API2000 is answered with API520.
C2_Witness ==
    /\ pc = "done" /\ ret.status = 200
    /\ ChosenStandard = "API2000"
    /\ ToFloat(args.MAWP_psig) = 151
    /\ ret.result.fire_standard_used = "API520"
    /\ ret.result.fire_height_m = 7620
    /\ ret.result.Q_dot_W > 0

C2_WitnessAt15 ==
    /\ pc = "done" /\ ret.status = 200
    /\ ChosenStandard = "API2000"
    /\ ToFloat(args.MAWP_psig) = 150
    /\ ret.result.fire_standard_used = "API2000"
    /\ ret.result.fire_height_m = 9140
    /\ ret.result.Q_dot_W > 0

\* The pressures of the criticality test of the request under way.
CriticalPressureOf(P1) == critical_downstream_pressure(Num(P1), Num(loc.k)).val
DownstreamPressure == loc.backpressure_psig + loc.atm_psia

\* C3: the criticality flag is true exactly when
\* critical_downstream_pressure(P1, k) is strictly greater than
\* backpressure + atmospheric pressure (equality is subcritical); the area
\* comes from the critical equation exactly when the flag is true and
\* otherwise from the subcritical equation with P2 = backpressure +
\* atmospheric; the returned 'critical' field tells the branch used.
C3_CriticalityBranch ==
    (Validated /\ "critical" \in DOMAIN loc) =>
        LET P1 == loc.P1_psia
            strictly_above == CriticalPressureOf(P1) > DownstreamPressure
            used_critical == Called("required_area_critical_gas")
            used_subcritical == Called("required_area_subcritical_gas")
            answered == "A_req" \in DOMAIN loc
        IN  /\ loc.critical = strictly_above
            /\ used_critical => strictly_above
            /\ used_subcritical => ~strictly_above
            /\ answered => (used_critical \/ used_subcritical)
            /\ \A i \in DOMAIN trace :
                   trace[i].fn = "required_area_subcritical_gas" =>
                       trace[i].y = DownstreamPressure
            /\ ret.status = 200 => ret.result.critical = used_critical

\* A sizing whose critical downstream pressure equals the downstream
\* pressure: answered as subcritical.
C3_Witness ==
    /\ pc = "done" /\ ret.status = 200
    /\ CriticalPressureOf(ret.result.P1_psia) = DownstreamPressure
    /\ ~ret.result.critical
    /\ Called("required_area_subcritical_gas")
    /\ ret.result.A_required_in2 > 0

C3_WitnessCritical ==
    /\ pc = "done" /\ ret.status = 200
    /\ CriticalPressureOf(ret.result.P1_psia) = DownstreamPressure + 1
    /\ ret.result.critical
    /\ Called("required_area_critical_gas")

\* C9: for every successful sizing the reported P1_psia is
\* MAWP + MAWP * accum% / 100 + atmospheric pressure, and the same P1 is the
\* upstream pressure of the criticality test and of the area equation that
\* is evaluated (MAWP 250, 10 %, 14.7 gives 289.7).
C9_RelievingPressure ==
    ret.status = 200 =>
        LET P1 == loc.MAWP_psig + (loc.MAWP_psig * loc.accum_percent) \div 1000
                  + loc.atm_psia
        IN  /\ ret.result.P1_psia = P1
            /\ Called("is_critical_flow")
            /\ \A i \in DOMAIN trace :
                   trace[i].fn \in {"is_critical_flow",
                                    "required_area_critical_gas",
                                    "required_area_subcritical_gas"} =>
                       trace[i].x = P1

C9_Witness ==
    /\ pc = "done" /\ ret.status = 200
    /\ ToFloat(args.MAWP_psig) = 2500
    /\ ToFloat(args.accum_percent) = 100
    /\ loc.atm_psia = 147
    /\ ret.result.P1_psia = 2897

\* The position of a recorded call in the order of the stages.
StageRank(fn) ==
    CASE fn = "validate" -> 1
      [] fn = "auto_switch" -> 2
      [] fn = "wetted_area_from_fill_volume" -> 3
      [] fn = "size_psv_for_fire" -> 4
      [] fn \in {"heat_load_api2000", "heat_load_api520"} -> 5
      [] fn = "evaporation_rate_kg_per_hr" -> 6
      [] fn = "relieving_pressure" -> 7
      [] fn = "is_critical_flow" -> 8
      [] fn \in {"downstream_pressure", "required_area_critical_gas",
                 "required_area_subcritical_gas"} -> 9
      [] fn = "select_orifice" -> 10

\* The fields of the complete result record.
ResultFields ==
    {"Q_dot_W", "m_kg_hr", "W_lb_hr", "P1_psia", "critical", "A_required_in2",
     "orifice_letter", "orifice_area_in2", "orifice_diameter_in",
     "inlet_size_in", "A_wetted_m2", "fire_height_m", "liquid_height_m",
     "liquid_height_exposed_m", "fire_standard_used"}

\* One step of a request: taken only while no response exists; it runs one
\* stage that comes later in the order than every stage run so far, or
\* builds the response from the stages run; a response is the complete
\* record after all the stages, or an error alone.
C18_Step ==
    /\ ret = NoResponse
    /\ \/ trace' = trace /\ pc = "respond"
       \/ /\ Len(trace') = Len(trace) + 1
          /\ SubSeq(trace', 1, Len(trace)) = trace
          /\ \A i \in DOMAIN trace :
                 StageRank(trace[i].fn) < StageRank(trace'[Len(trace')].fn)
    /\ ret' # NoResponse =>
          /\ pc' = "done"
          /\ \/ /\ ret'.status = 200 /\ ret'.error = ""
                /\ DOMAIN ret'.result = ResultFields
                /\ {StageRank(trace'[i].fn) : i \in DOMAIN trace'} = 1..10
             \/ /\ ret'.status = 400 /\ ret'.error # ""
                /\ ret'.result = [none |-> 0]
                /\ trace' # trace

\* C18: a sizing request runs its stages in the fixed order validation,
\* geometry, fire heat load, evaporation rate, relieving pressure,
\* criticality, required area, orifice selection, each at most once; the
\* first stage that fails ends the request with an error only, no later
\* stage runs, no stage is retried, and the response is either the complete
\* result record or an error message, never both.
C18_StageOrder == [][C18_Step]_vars

\* A request whose geometry stage failed: answered with the error after
\* three recorded steps.
C18_WitnessGeometry ==
    /\ pc = "done" /\ ret.status = 400 /\ ret.result = [none |-> 0]
    /\ Len(trace) = 3 /\ trace[3].fn = "wetted_area_from_fill_volume"

\* A request whose required-area stage failed: the orifice selection never
\* ran and the answer is the error alone.
C18_Witness ==
    /\ pc = "done" /\ ret.status = 400 /\ ret.result = [none |-> 0]
    /\ trace[Len(trace)].fn = "required_area_subcritical_gas"
    /\ ~Called("select_orifice")

\* A request answered with the complete record after all the stages.
C18_WitnessComplete ==
    /\ pc = "done" /\ ret.status = 200
    /\ Len(trace) = 10 /\ trace[10].fn = "select_orifice"
    /\ trace[5].fn = "heat_load_api520"

\* The failures of a well-formed computation that has no physical
\* solution: orifice.py 85-90, area.py 210-213 and 228-231.
InfeasibilityErrors ==
    {"no_standard_orifice", "P2_not_below_P1", "denominator_zero"}

\* What the caller can tell an error response by, besides the text of its
\* message: the HTTP status (the body is {"error": message} in every case).
OutcomeKind(response) == response.status

\* The outcome of a generic validation failure (app.py 246-248).
ValidationOutcome == OutcomeKind(ErrorResponse(400, "ValidationError", ""))

\* C19: a domain-infeasibility failure (no orifice large enough, subcritical
\* P2 >= P1, zero denominator) is reported to the caller as an outcome
\* distinct from that of a generic validation failure: the two error
\* classes never produce the same kind of error outcome.
C19_DistinctOutcomes ==
    (pc = "done" /\ ret.status # 200) =>
        IF ret.error \in InfeasibilityErrors
        THEN OutcomeKind(ret) # ValidationOutcome
        ELSE OutcomeKind(ret) = ValidationOutcome

---------------------------------------------------------------------------
(* Direct calls of size_psv_for_fire *)

\* The arguments of a direct call, as the locals SizeArgs reads.
BaseSizing ==
    [A_wetted_m2 |-> 5000000, fire_standard |-> "API520", P_design_barg |-> 689,
     firefighting |-> TRUE, h_fg_J_per_kg |-> 300000, k |-> 1400, Z |-> 900,
     M_lb_per_lbmol |-> 440, T_C |-> 5000, MAWP_psig |-> 2500, atm_psia |-> 147,
     accum_percent |-> 100, backpressure_psig |-> 0,
     Kd |-> 975, Kb |-> 1000, Kc |-> 1000, Ke |-> 1000]

\* One argument replaced by a value at the edge of its domain or
\* outside it.
SizingOverrides ==
    {<<"k", 1400>>, <<"k", 2000>>, <<"k", 2500>>, <<"k", 1000>>,
     <<"Z", 2000>>, <<"Z", 2500>>, <<"Z", 0>>,
     <<"M_lb_per_lbmol", 0>>, <<"T_C", 0 - 27315>>, <<"T_C", 0 - 30000>>,
     <<"MAWP_psig", 0>>, <<"atm_psia", 0>>, <<"backpressure_psig", 0 - 1>>,
     <<"backpressure_psig", 2750>>, <<"backpressure_psig", 3000>>,
     <<"accum_percent", 1000>>, <<"accum_percent", 1500>>, <<"accum_percent", 0>>,
     <<"Kd", 1000>>, <<"Kd", 1500>>, <<"Kb", 1500>>, <<"Kc", 1500>>,
     <<"Ke", 2000>>, <<"Ke", 2500>>, <<"Kd", 0>>, <<"Ke", 0>>,
     <<"fire_standard", "API2000">>, <<"fire_standard", "NFPA30">>,
     <<"h_fg_J_per_kg", 0>>, <<"A_wetted_m2", 0 - 1>>}

\* Each override with and without wetted area, in the critical and in the
\* subcritical regime (backpressure 0 and 240 psig).
SizingCalls ==
    {[[[BaseSizing EXCEPT !.A_wetted_m2 = A] EXCEPT !.backpressure_psig = bp]
          EXCEPT ![o[1]] = o[2]] :
        A \in {0, 5000000}, bp \in {0, 2400}, o \in SizingOverrides}

InitSizing ==
    /\ pc = "sizing"
    /\ args \in SizingCalls
    /\ ret = NoResponse
    /\ trace = << >>
    /\ loc = args

\* size_psv_for_fire called directly: its steps, up to the return of the
\* result dict (pc = "respond") or the exception raised (pc = "done").
NextSizing ==
    \/ SizingValidate \/ HeatLoad \/ Evaporation \/ RelievingPressure
    \/ Criticality \/ RequiredArea \/ SelectOrifice

SpecSizing == InitSizing /\ [][NextSizing]_vars

\* size_psv_for_fire returned its result dict.
SizingReturned == pc = "respond"

\* C16: size_psv_for_fire re-validates all of its inputs at entry: whenever
\* it returns a result, every input was inside its domain (fire standard in
\* {API2000, API520}, k in (1, 2], 0 < Z <= 2, M > 0, T above absolute
\* zero, MAWP > 0, atm > 0, backpressure >= 0, accumulation within
\* 0..100 %, Kd, Kb, Kc in (0, 1], Ke in (0, 2]), and an out-of-domain
\* input is rejected even when the wetted area is 0.
C16_RevalidatesAtEntry ==
    SizingReturned =>
        /\ args.fire_standard \in {"API2000", "API520"}
        /\ args.k > 1000 /\ args.k <= 2000
        /\ args.Z > 0 /\ args.Z <= 2000
        /\ args.M_lb_per_lbmol > 0
        /\ args.T_C >= 0 - 27315
        /\ args.MAWP_psig > 0 /\ args.atm_psia > 0
        /\ args.backpressure_psig >= 0
        /\ args.accum_percent >= 0 /\ args.accum_percent <= 1000
        /\ \A K \in {args.Kd, args.Kb, args.Kc} : K > 0 /\ K <= 1000
        /\ args.Ke > 0 /\ args.Ke <= 2000

\* C27: every result returned by size_psv_for_fire has its relieving
\* pressure strictly above the absolute downstream pressure, P1_psia >
\* backpressure + atmospheric: a backpressure at or above MAWP plus
\* accumulation ends in an error for every wetted area, 0 included.
C27_BackpressureBelowRelief ==
    SizingReturned =>
        loc.result.P1_psia > args.backpressure_psig + args.atm_psia

\* C30: with wetted area 0, every result size_psv_for_fire returns has heat
\* load 0, mass flow 0 in kg/hr and in lb/hr, required area 0 and orifice
\* letter D, under either fire standard and in either flow branch; and the
\* zero flow passes every stage: a call with wetted area 0 never fails
\* with an infeasibility error (no orifice, P2 >= P1, zero denominator), and
\* neither area equation nor the orifice selection fails on it.
C30_ZeroArea ==
    args.A_wetted_m2 = 0 =>
        /\ SizingReturned =>
              /\ loc.result.Q_dot_W = 0
              /\ loc.result.m_kg_hr = 0
              /\ loc.result.W_lb_hr = 0
              /\ loc.result.A_required_in2 = 0
              /\ loc.result.orifice_letter = "D"
        /\ pc = "done" =>
              /\ ret.error \notin InfeasibilityErrors
              /\ trace[Len(trace)].fn \notin
                     {"required_area_critical_gas",
                      "required_area_subcritical_gas", "select_orifice"}

\* A result for wetted area 0 under API2000 in the subcritical branch.
C30_Witness ==
    /\ SizingReturned /\ args.A_wetted_m2 = 0
    /\ args.fire_standard = "API2000"
    /\ ~loc.result.critical
    /\ loc.result.orifice_letter = "D"

\* A result for wetted area 0 under API520 in the critical branch.
C30_WitnessCritical ==
    /\ SizingReturned /\ args.A_wetted_m2 = 0
    /\ args.fire_standard = "API520"
    /\ loc.result.critical
    /\ loc.result.A_required_in2 = 0

---------------------------------------------------------------------------
(* A server answering several requests in a row *)

\* Requests of one session: answered after a switch to API520, answered
\* under API2000, rejected by validation, rejected by the subcritical area
\* equation (P2 >= P1).
SessionRequests ==
    {BaseRequest,
     [BaseRequest EXCEPT !.MAWP_psig = Num(100)],
     [BaseRequest EXCEPT !.k = BadStr],
     [BaseRequest EXCEPT !.backpressure_psig = Num(3000)]}

\* Number of requests of a session.
MaxCalls == 3

\* The requests answered so far, with their responses, in order.
Answered == SelectSeq(trace, LAMBDA c : c.fn = "calculate")

\* calculate returns its response and the server takes the next request:
\* the handler starts again with fresh locals; nothing else is kept
\* between two requests (the modules hold only constant tables).
NextCall ==
    /\ pc = "done"
    /\ Len(Answered) + 1 < MaxCalls
    /\ trace' = Append(trace, Call("calculate", args, ret))
    /\ args' \in SessionRequests
    /\ pc' = "validate"
    /\ ret' = NoResponse
    /\ loc' = NoLocals

InitSession ==
    /\ pc = "validate"
    /\ args \in SessionRequests
    /\ ret = NoResponse
    /\ trace = << >>
    /\ loc = NoLocals

NextSession ==
    \/ Validate \/ AutoSwitch \/ Geometry
    \/ SizingValidate \/ HeatLoad \/ Evaporation \/ RelievingPressure
    \/ Criticality \/ RequiredArea \/ SelectOrifice
    \/ Respond
    \/ NextCall

SpecSession == InitSession /\ [][NextSession]_vars

C20_WitnessError ==
    /\ pc = "done" /\ ret.status = 400 /\ ret.error = "P2_not_below_P1"
    /\ Len(Answered) = 2
    /\ Answered[1].x = args /\ Answered[1].y = ret
    /\ Answered[2].y.status = 400 /\ Answered[2].y.exc = "ValidationError"

---------------------------------------------------------------------------
(* Concurrent requests *)

\* Two requests may be in flight at once.  pc, args, ret and loc are the
\* frame of the request that is running; the frame of the other request,
\* suspended between two steps, and the responses returned so far are kept
\* in the first entry of trace, followed by the calls of the running
\* request.  The reference tables (API_ORIFICES, API_INLET_SIZES,
\* FIRE_HEIGHT_LIMITS, the VALID_* lists) are module constants that no
\* function assigns; they are the only thing the requests share.
ConcurrentRequests ==
    {BaseRequest,
     [BaseRequest EXCEPT !.MAWP_psig = Num(100)],
     [BaseRequest EXCEPT !.k = BadStr]}

Suspended == trace[1].x
Returned == trace[1].y
Frame == [pc |-> pc, args |-> args, ret |-> ret, loc |-> loc,
          calls |-> Tail(trace)]
Shared(frames, responses) == Call("shared", frames, responses)

InitConcurrent ==
    /\ pc = "validate"
    /\ args \in ConcurrentRequests
    /\ ret = NoResponse
    /\ trace = <<Shared(<< >>, {})>>
    /\ loc = NoLocals

\* A second request arrives while one is in flight.
Arrive ==
    /\ pc # "done"
    /\ Suspended = << >>
    /\ trace' = <<Shared(<<Frame>>, Returned)>>
    /\ args' \in ConcurrentRequests
    /\ pc' = "validate"
    /\ ret' = NoResponse
    /\ loc' = NoLocals

\* The running request is suspended between two steps and the other resumed.
Switch ==
    /\ pc # "done"
    /\ Suspended # << >>
    /\ trace' = <<Shared(<<Frame>>, Returned)>> \o Suspended[1].calls
    /\ pc' = Suspended[1].pc
    /\ args' = Suspended[1].args
    /\ ret' = Suspended[1].ret
    /\ loc' = Suspended[1].loc

\* The running request returns its response; the suspended request goes
\* on, or the next request arrives.
Return ==
    /\ pc = "done"
    /\ IF Suspended # << >>
       THEN /\ trace' = <<Shared(<< >>, Returned \cup {<<args, ret>>})>>
                        \o Suspended[1].calls
            /\ pc' = Suspended[1].pc
            /\ args' = Suspended[1].args
            /\ ret' = Suspended[1].ret
            /\ loc' = Suspended[1].loc
       ELSE /\ trace' = <<Shared(<< >>, Returned \cup {<<args, ret>>})>>
            /\ args' \in ConcurrentRequests
            /\ pc' = "validate"
            /\ ret' = NoResponse
            /\ loc' = NoLocals

NextConcurrent ==
    \/ Validate \/ AutoSwitch \/ Geometry
    \/ SizingValidate \/ HeatLoad \/ Evaporation \/ RelievingPressure
    \/ Criticality \/ RequiredArea \/ SelectOrifice
    \/ Respond
    \/ Arrive \/ Switch \/ Return

SpecConcurrent == InitConcurrent /\ [][NextConcurrent]_vars

\* The fire standard and fire height a frame works with are those of its
\* own request.
OwnStandard(frame) ==
    (frame.loc # NoLocals /\ frame.pc \notin {"validate", "auto_switch"}) =>
        LET chosen == StrTable[frame.args.fire_standard[2]].s
            expected == IF ToFloat(frame.args.MAWP_psig) > 150 /\ chosen = "API2000"
                        THEN "API520" ELSE chosen
        IN  /\ frame.loc.fire_standard = expected
            /\ frame.loc.fire_height_m = FIRE_HEIGHT_LIMITS[expected]

---------------------------------------------------------------------------
(* A head object used by a sequence of calls *)

\* A plausible slip: the bisection keeping its bracket in the head, and the
\* quadrature remembering the height it was last asked for.
HeadAfter_writing(head, fn, value) ==
    IF fn \in {"solve_height_in_head", "liquid_height_from_volume"}
    THEN [head EXCEPT !.h1 = value]
    ELSE IF fn = "volume_up_to" THEN [head EXCEPT !.h2 = value]
    ELSE head

\* The head after a method or function has run on it and returned value:
\* the methods of the head classes only read self (heads.py 89-117,
\* 169-197, 224-245) and the functions of vessel.py only read head
\* (getattr, head.h1, head.radius and method calls); nothing assigns an
\* attribute after __post_init__.
HeadAfter(head, fn, value) == head

\* Calls made on one head object.
MaxUses == 2

HeadObjects ==
    {<<"head", ht, Num(1000), Num(10)>> : ht \in HeadTypes}

InitObject ==
    /\ pc = "new"
    /\ args \in HeadObjects
    /\ ret = Ok(0)
    /\ trace = << >>
    /\ loc = NoLocals

\* head = ASMEFDHead(D, t) and the like: __post_init__ sets every attribute.
NewHead ==
    /\ pc = "new"
    /\ loc' = [head |-> ConstructHead(args[2], args[3], args[4]).head]
    /\ pc' = "ready"
    /\ UNCHANGED <<args, ret, trace>>

\* A call fn returning value on the head held in loc.
MethodCall(fn, value) ==
    /\ pc = "ready" /\ Len(trace) < MaxUses
    /\ ret' = Ok(value)
    /\ loc' = [loc EXCEPT !.head = HeadAfter(loc.head, fn, value)]
    /\ trace' = Append(trace, fn)
    /\ UNCHANGED <<pc, args>>

UseRadiusAtHeight ==
    \E h \in {60, 300} :
        MethodCall("radius_at_height", radius_at_height(loc.head, h))

UseAreaAtHeight ==
    \E h \in {60, 300} :
        MethodCall("area_at_height", area_at_height(loc.head, h))

UseVolumeUpTo ==
    \E h \in {60, 150} :
        MethodCall("volume_up_to", volume_up_to(loc.head, h, QuadSteps))

UseMaxHeadVolume ==
    MethodCall("max_head_volume", max_head_volume(loc.head))

UseSolveHeightInHead ==
    \E V \in {10000000, 40000000} :
        MethodCall("solve_height_in_head",
               solve_height_in_head(V, loc.head, BisectSteps))

UseLiquidHeightFromVolume ==
    \E V \in {10000000, 300000000, 1250000000} :
        MethodCall("liquid_height_from_volume",
               liquid_height_from_volume(V, loc.head, 1500))

UseHeadWettedArea ==
    \E h \in {100} :
        MethodCall("head_wetted_area_up_to",
               head_wetted_area_up_to(h, loc.head, QuadSteps))

UseWettedAreaUpToHeight ==
    \E H \in {100, 1000, 1800} :
        MethodCall("wetted_area_up_to_height",
               wetted_area_up_to_height(H, loc.head, 1500, QuadSteps).val)

NextObject ==
    \/ NewHead
    \/ UseRadiusAtHeight \/ UseAreaAtHeight \/ UseVolumeUpTo
    \/ UseMaxHeadVolume \/ UseSolveHeightInHead
    \/ UseLiquidHeightFromVolume
    \/ UseHeadWettedArea \/ UseWettedAreaUpToHeight

SpecObject == InitObject /\ [][NextObject]_vars

=============================================================================
